---- MODULE Spec2Model ----
(***************************************************************************)
(* Model of the bar-age-gate client tooling (mrruby/bar-age-gate):         *)
(*   - the witness bridge of src/cli.ts (createClientWitnesses,            *)
(*     createBartenderWitnesses, normalizePrivateState, keyHex);           *)
(*   - the polling / retry loops of src/cli.ts, the dust script and the    *)
(*     deploy script (waitUntilSynced, waitSynced, waitForStatus, the      *)
(*     funds wait, the dust wait, the balance retry) and the unbounded     *)
(*     rx.filter waits;                                                    *)
(*   - the submission flows: the deploy scripts, the transfer of the fund  *)
(*     script, a contract call of a CLI menu command, and the candidate    *)
(*     loop of the dust script;                                            *)
(*   - signTransactionIntents of src/cli.ts.                               *)
(***************************************************************************)
EXTENDS Integers, Sequences, FiniteSets, TLC

VARIABLES
  privateStore,   \* level private-state provider: slot -> BarPrivateState
  wcall,          \* the last witness invocation and what it returned
  lastStored,     \* history: key -> the record of the latest returned storeAge
  wloop,          \* which wait / retry loop is running
  wpc,            \* position inside the loop
  now,            \* Date.now(), in ms
  deadline,       \* the loop's deadline (end / endDust / deadline), in ms
  started,        \* Date.now() when the loop was entered
  source,         \* what the observed source would answer if sampled now
  held,           \* the value the loop currently holds (state / balance / dust)
  hist,           \* history: the samples (attempts) and sleeps of the loop
  wres,           \* how the loop ended
  flow,           \* which script / command is running its submission flow
  fpc,            \* the stage the flow is about to run
  plog,           \* history: the stages run so far and how each returned
  perr,           \* the error the flow ended with, as the caller sees it
  out,            \* what the flow reported (console lines, deployment.json)
  utxos,          \* dust script: state.unshielded.availableCoins (values)
  tried,          \* dust script: history of the candidate attempts
  txHash,         \* dust script: the txHash variable of main
  balance,        \* deploy script: the balance variable of main once the funds wait ended
  ttl,            \* deploy script: the last getTtl() call of main and what it returned
  wallets,        \* each wallet of the process: "none", "started", "stopped"
  fund,           \* fund script: process.argv[2], cliInput, outputs, the exit code
  tx,             \* signer: the transaction passed to signTransactionIntents
  txBefore,       \* signer: history, the transaction as the last call received it
  signCalls,      \* signer: history, the number of calls made on tx
  addMode,        \* signer: what the ledger's addSignatures does with a list
  chain,          \* the contract's public ledger state on the chain
  indexed,        \* what the indexer holds for the contract address
  rd,             \* the last readClientStatus call of the running command:
                  \* its argument, its steps and its result
  queries,        \* history: the queryContractState calls made since the
                  \* running command (or the first read) began
  cmd,            \* the menu command that is running and its position
  session         \* the CLI run: "menu", "command", "ended"

witnessVars == <<privateStore, wcall, lastStored>>
waitVars == <<wloop, wpc, now, deadline, started, source, held, hist, wres>>
flowVars == <<flow, fpc, plog, perr, out, fund, utxos, tried, txHash, balance, ttl, wallets>>
signVars == <<tx, txBefore, signCalls, addMode>>
cliVars == <<chain, indexed, rd, queries, cmd, session>>
vars == <<privateStore, wcall, lastStored,
          wloop, wpc, now, deadline, started, source, held, hist, wres,
          flow, fpc, plog, perr, out, fund, utxos, tried, txHash, balance, ttl, wallets,
          tx, txBefore, signCalls, addMode,
          chain, indexed, rd, queries, cmd, session>>

-----------------------------------------------------------------------------
(* Bounds of the model *)

\* number of distinct client keys (distinct nicknames)
NumKeys == 2
\* the latest Date.now() at which a wait loop may be entered
MaxStart == 1

-----------------------------------------------------------------------------
(* Bytes and hex strings.  A Uint8Array is a sequence of 0..255; a string   *)
(* is a sequence of one-character strings.                                  *)

HexDigits == <<"0", "1", "2", "3", "4", "5", "6", "7",
               "8", "9", "a", "b", "c", "d", "e", "f">>

\* Buffer.from(key).toString('hex'): two lower-case digits per byte
keyHex(key) ==
  [i \in 1..(2 * Len(key)) |->
     IF i % 2 = 1 THEN HexDigits[(key[(i + 1) \div 2] \div 16) + 1]
                  ELSE HexDigits[(key[i \div 2] % 16) + 1]]

IsHexDigit(c) == \E v \in 1..16 : HexDigits[v] = c

HexVal(c) == (CHOOSE v \in 1..16 : HexDigits[v] = c) - 1

\* Buffer.from(hex, 'hex'): decodes pairs of digits, stops at the first pair
\* that is not two hex digits, drops a trailing odd digit
RECURSIVE bufferFromHex(_)
bufferFromHex(hex) ==
  IF Len(hex) < 2 \/ ~IsHexDigit(hex[1]) \/ ~IsHexDigit(hex[2])
    THEN <<>>
    ELSE <<16 * HexVal(hex[1]) + HexVal(hex[2])>>
           \o bufferFromHex(SubSeq(hex, 3, Len(hex)))

\* Number(age) of a bigint: exact below 2^53, which covers every integer of
\* the model (the circuit's age is an 8-bit value)
NumberOfBigInt(age) == age

\* BigInt(record.age) of an integral number
BigIntOfNumber(n) == n

KeyBytes(i) == <<(9 * i) % 256, (251 + i) % 256>>
SaltBytes(j) == <<(j * 160) % 256, (j * 7) % 256>>

Keys == {KeyBytes(i) : i \in 1..NumKeys}
\* two of the values randomBytes(32) may return
Salts == {SaltBytes(1), SaltBytes(2)}
\* ages the register circuit may pass on (the CLI admits 0..255)
Ages == {0, 22}
HexKeys == {keyHex(k) : k \in Keys}

-----------------------------------------------------------------------------
(* Private state values.  context.privateState is typed BarPrivateState but *)
(* normalizePrivateState accepts anything, so a value is described by its   *)
(* JavaScript shape.                                                       *)

NoEntries == [h \in {} |-> [age |-> 0, saltHex |-> <<>>]]

JsUndefined == [tag |-> "undefined", entriesTag |-> "undefined", entries |-> NoEntries]
JsPrimitive == [tag |-> "primitive", entriesTag |-> "undefined", entries |-> NoEntries]
ObjNoEntries == [tag |-> "object", entriesTag |-> "undefined", entries |-> NoEntries]
ObjBadEntries == [tag |-> "object", entriesTag |-> "primitive", entries |-> NoEntries]
\* the value a throwing witness hands back: none
NoState == [tag |-> "none", entriesTag |-> "undefined", entries |-> NoEntries]

BarPrivateState(entries) == [tag |-> "object", entriesTag |-> "object", entries |-> entries]

emptyPrivateState == BarPrivateState(NoEntries)

PrivateStateShapes ==
  {JsUndefined, JsPrimitive, ObjNoEntries, ObjBadEntries, emptyPrivateState}

normalizePrivateState(state) ==
  IF state.tag # "object"
    THEN emptyPrivateState
    ELSE BarPrivateState(IF state.entriesTag = "object" THEN state.entries ELSE NoEntries)

\* property read obj[name] of a plain record object
Lookup(entries, name) ==
  IF name \in DOMAIN entries THEN <<entries[name]>> ELSE <<>>

\* { ...entries, [name]: record }
SpreadWith(entries, name, record) ==
  [h \in (DOMAIN entries) \cup {name} |-> IF h = name THEN record ELSE entries[h]]

MissingRecordMsg == "Missing private age record. Register client first with this wallet."
StoreClientOnlyMsg == "storeAge witness is client-only"
LoadClientOnlyMsg == "loadAge witness is client-only"

Returned(state, values, ctxAfter) ==
  [threw |-> FALSE, msg |-> "", state |-> state, values |-> values, ctx |-> ctxAfter]

Thrown(msg, ctxAfter) ==
  [threw |-> TRUE, msg |-> msg, state |-> NoState, values |-> <<>>, ctx |-> ctxAfter]

\* A storeAge that writes the record into the object it was given: the entries
\* object of a well-formed input is the one normalizePrivateState hands back
ClientStoreAgeInPlace(ctx, clientKey, age, salt) ==
  LET privateState == normalizePrivateState(ctx)
      next == BarPrivateState(
                SpreadWith(privateState.entries, keyHex(clientKey),
                           [age |-> NumberOfBigInt(age), saltHex |-> keyHex(salt)]))
  IN  Returned(next, <<>>,
               IF ctx.tag = "object" /\ ctx.entriesTag = "object" THEN next ELSE ctx)

\* A storeAge that builds the next state from the new record alone
ClientStoreAgeNoSpread(ctx, clientKey, age, salt) ==
  Returned(BarPrivateState(
             SpreadWith(NoEntries, keyHex(clientKey),
                        [age |-> NumberOfBigInt(age), saltHex |-> keyHex(salt)])),
           <<>>, ctx)

\* createClientWitnesses().storeAge
ClientStoreAge(ctx, clientKey, age, salt) ==
  LET privateState == normalizePrivateState(ctx)
      next == BarPrivateState(
                SpreadWith(privateState.entries, keyHex(clientKey),
                           [age |-> NumberOfBigInt(age), saltHex |-> keyHex(salt)]))
  IN  Returned(next, <<>>, ctx)

\* A loadAge that answers a zero record for a key it does not hold
ClientLoadAgeDefaulting(ctx, clientKey) ==
  LET privateState == normalizePrivateState(ctx)
      record == Lookup(privateState.entries, keyHex(clientKey))
  IN  IF record = <<>>
        THEN Returned(privateState, <<0, <<>>>>, ctx)
        ELSE Returned(privateState,
                      <<BigIntOfNumber(record[1].age), bufferFromHex(record[1].saltHex)>>,
                      ctx)

\* A loadAge that answers with the record of the highest age it holds,
\* whatever the key
ClientLoadAgeHighest(ctx, clientKey) ==
  LET privateState == normalizePrivateState(ctx)
      names == DOMAIN privateState.entries
  IN  IF names = {}
        THEN Thrown(MissingRecordMsg, ctx)
        ELSE LET top == CHOOSE h \in names :
                          \A g \in names : privateState.entries[g].age <= privateState.entries[h].age
             IN  Returned(privateState,
                          <<BigIntOfNumber(privateState.entries[top].age),
                            bufferFromHex(privateState.entries[top].saltHex)>>,
                          ctx)

\* createClientWitnesses().loadAge
ClientLoadAge(ctx, clientKey) ==
  LET privateState == normalizePrivateState(ctx)
      record == Lookup(privateState.entries, keyHex(clientKey))
  IN  IF record = <<>>
        THEN Thrown(MissingRecordMsg, ctx)
        ELSE Returned(privateState,
                      <<BigIntOfNumber(record[1].age), bufferFromHex(record[1].saltHex)>>,
                      ctx)

\* A bartender storeAge wired to the client's implementation
BartenderStoreAgeAsClient(ctx, clientKey, age, salt) ==
  ClientStoreAge(ctx, clientKey, age, salt)

\* createBartenderWitnesses().storeAge
BartenderStoreAge(ctx, clientKey, age, salt) == Thrown(StoreClientOnlyMsg, ctx)

\* createBartenderWitnesses().loadAge
BartenderLoadAge(ctx, clientKey) == Thrown(LoadClientOnlyMsg, ctx)

-----------------------------------------------------------------------------
(* The two roles of one CLI run and their private-state slots *)

Roles == {"client", "bartender"}

PRIVATE_STATE_STORE_PREFIX == "bar-private"
CLIENT_PRIVATE_STATE_ID == "barPrivateStateClient"
BARTENDER_PRIVATE_STATE_ID == "barPrivateStateBartender"

\* privateStateStoreName(role, sessionId); the session id is one value per run
privateStateStoreName(role) == <<PRIVATE_STATE_STORE_PREFIX, role, "session">>

\* Both roles given the client's store and private-state id
PrivateSlotShared(role) ==
  <<privateStateStoreName("client"), CLIENT_PRIVATE_STATE_ID>>

\* the level store and the privateStateId findDeployedContract gets for a role
PrivateSlot(role) ==
  <<privateStateStoreName(role),
    IF role = "client" THEN CLIENT_PRIVATE_STATE_ID ELSE BARTENDER_PRIVATE_STATE_ID>>

Slots == {PrivateSlot(r) : r \in Roles}

NoRecord == [age |-> -1, salt |-> <<>>]

NoCall ==
  [role |-> "none", op |-> "none", key |-> <<>>, age |-> -1, salt |-> <<>>,
   input |-> NoState, result |-> Thrown("", NoState)]

-----------------------------------------------------------------------------
(* The wait loops are not running while the witness bridge is exercised *)

NoSample == [n |-> 0, t |-> 0, v |-> "none"]

WaitIdle ==
  /\ wloop = "none"
  /\ wpc = "idle"
  /\ now = 0
  /\ deadline = 0
  /\ started = 0
  /\ source = "bad"
  /\ held = NoSample
  /\ hist = <<>>
  /\ wres = "none"

\* a transaction without an intent map
NoTx == [hasIntents |-> FALSE, intents |-> <<>>]

\* signTransactionIntents is not running
SignIdle ==
  /\ tx = NoTx
  /\ txBefore = NoTx
  /\ signCalls = 0
  /\ addMode = "replace"

\* the flow has thrown nothing
NoError == [stage |-> "none", msg |-> ""]

\* no submission flow is running
\* the answer of the indexer to the block-time query: fetch rejected, the
\* status not ok, the body not JSON, the number of errors listed, and the
\* timestamp (<<>> when data.block.timestamp is absent)
ChainAnswer(rejected, ok, parses, errors, ts) ==
  [rejected |-> rejected, ok |-> ok, parses |-> parses, errors |-> errors, ts |-> ts]

NoAnswer == ChainAnswer(FALSE, FALSE, FALSE, 0, <<>>)

\* no getTtl() call was made yet
NoTtl == [n |-> 0, at |-> 0, answer |-> NoAnswer, threw |-> FALSE, value |-> 0]

\* the wallet of a script's main, the two role wallets of the CLI, and the
\* receiver and sender wallets of the fund script
WalletNames == {"script", "client", "bartender", "receiver", "sender"}

NoWallets == [w \in WalletNames |-> "none"]

\* ctx.wallet.start(...) / facade.start(...) has returned for the wallets ws
Started(ws, names) == [w \in WalletNames |-> IF w \in names THEN "started" ELSE ws[w]]

\* await wallet.stop() for each of the wallets named, where it was started
Stopped(ws, names) ==
  [w \in WalletNames |-> IF w \in names /\ ws[w] = "started" THEN "stopped" ELSE ws[w]]

\* the CliInput of the fund script; <<>> is an absent field
CliInput(mnemonic, shieldedAddress, unshieldedAddress) ==
  [mnemonic |-> mnemonic, shieldedAddress |-> shieldedAddress,
   unshieldedAddress |-> unshieldedAddress]

NoCliInput == CliInput(<<>>, <<>>, <<>>)

\* the fund script has not run
NoFund == [arg |-> <<>>, input |-> NoCliInput, outputs |-> <<>>, exitCode |-> 0]

FlowIdle ==
  /\ flow = "none"
  /\ fpc = "idle"
  /\ plog = <<>>
  /\ perr = NoError
  /\ out = <<>>
  /\ utxos = <<>>
  /\ tried = <<>>
  /\ txHash = ""
  /\ balance = 0
  /\ ttl = NoTtl

\* a partial map without an entry
NoMapping == [k \in {} |-> 0]

\* the contract's ledger: the three public mappings of the contract
Ledger(commitment, permit, counter) ==
  [present |-> TRUE, ageCommitment |-> commitment, adultPermit |-> permit,
   drinksSold |-> counter]

\* the ledger of a freshly deployed contract
EmptyLedger == Ledger({}, NoMapping, NoMapping)

\* queryContractState resolving to null: no state for the address
NoContractState ==
  [present |-> FALSE, ageCommitment |-> {}, adultPermit |-> NoMapping,
   drinksSold |-> NoMapping]

NoStatus == [registered |-> FALSE, adultVerified |-> FALSE, drinksSold |-> -1]

\* no readClientStatus call has been made
NoRead ==
  [by |-> "none", key |-> <<>>, state |-> NoContractState, ops |-> <<>>,
   threw |-> FALSE, status |-> NoStatus]

\* nothing was typed at the prompts of the command
NoInput == [nickname |-> <<>>, age |-> <<>>]

\* no menu command and no waitForStatus is running
NoCommand ==
  [name |-> "none", key |-> <<>>, stage |-> "none", before |-> NoStatus,
   predicate |-> "none", polls |-> 0, input |-> NoInput]

\* no CLI session is running
CliIdle ==
  /\ chain = NoContractState
  /\ indexed = NoContractState
  /\ rd = NoRead
  /\ queries = 0
  /\ cmd = NoCommand
  /\ session = "none"

-----------------------------------------------------------------------------
(* Witness invocations.  The contract runtime hands the witness the role's  *)
(* current private state and, when the witness returns, keeps the state it  *)
(* returned (callTx of the contract found at cli.ts:512-527).               *)

Invoke(role, op, ctx, clientKey, age, salt) ==
  IF role = "client"
    THEN IF op = "storeAge" THEN ClientStoreAge(ctx, clientKey, age, salt)
                            ELSE ClientLoadAge(ctx, clientKey)
    ELSE IF op = "storeAge" THEN BartenderStoreAge(ctx, clientKey, age, salt)
                            ELSE BartenderLoadAge(ctx, clientKey)

WitnessCall(role, op, clientKey, age, salt) ==
  LET slot == PrivateSlot(role)
      ctx == privateStore[slot]
      r == Invoke(role, op, ctx, clientKey, age, salt)
  IN  /\ privateStore' = IF r.threw THEN privateStore
                                    ELSE [privateStore EXCEPT ![slot] = r.state]
      /\ wcall' = [role |-> role, op |-> op, key |-> clientKey, age |-> age,
                   salt |-> salt, input |-> ctx, result |-> r]
      /\ lastStored' = IF role = "client" /\ op = "storeAge" /\ ~r.threw
                         THEN [lastStored EXCEPT ![clientKey] = [age |-> age, salt |-> salt]]
                         ELSE lastStored
      /\ UNCHANGED <<waitVars, flowVars, signVars, cliVars>>

ClientStoreAgeCall ==
  \E k \in Keys, age \in Ages, salt \in Salts :
    WitnessCall("client", "storeAge", k, age, salt)

ClientLoadAgeCall ==
  \E k \in Keys : WitnessCall("client", "loadAge", k, -1, <<>>)

BartenderStoreAgeCall ==
  \E k \in Keys, age \in Ages, salt \in Salts :
    WitnessCall("bartender", "storeAge", k, age, salt)

BartenderLoadAgeCall ==
  \E k \in Keys : WitnessCall("bartender", "loadAge", k, -1, <<>>)

NextWitness ==
  \/ ClientStoreAgeCall
  \/ ClientLoadAgeCall
  \/ BartenderStoreAgeCall
  \/ BartenderLoadAgeCall

\* a witness handed any private state the runtime may hold
InitWitness ==
  /\ \E shape \in PrivateStateShapes : privateStore = [s \in Slots |-> shape]
  /\ wcall = NoCall
  /\ lastStored = [k \in Keys |-> NoRecord]
  /\ WaitIdle
  /\ FlowIdle
  /\ fund = NoFund
  /\ wallets = NoWallets
  /\ SignIdle
  /\ CliIdle

\* one CLI run: findDeployedContract gives both roles emptyPrivateState()
InitSession ==
  /\ privateStore = [s \in Slots |-> emptyPrivateState]
  /\ wcall = NoCall
  /\ lastStored = [k \in Keys |-> NoRecord]
  /\ WaitIdle
  /\ FlowIdle
  /\ fund = NoFund
  /\ wallets = NoWallets
  /\ SignIdle
  /\ CliIdle

SpecWitness == InitWitness /\ [][NextWitness]_vars

SpecSession == InitSession /\ [][NextWitness]_vars

ClientState == privateStore[PrivateSlot("client")]
BartenderState == privateStore[PrivateSlot("bartender")]

\* what a value holds for a key: its record if it is a well-formed state
HeldBy(state, hexKey) ==
  IF state.tag = "object" /\ state.entriesTag = "object"
    THEN Lookup(state.entries, hexKey)
    ELSE <<>>

-----------------------------------------------------------------------------
(* Wait and retry loops.  Time is Date.now() in ms and passes only in the   *)
(* sleeps (setTimeout); the observed source (wallet state, indexer, the     *)
(* wallet's balancing) changes at any moment.                               *)

\* src/cli.ts
WAIT_POLL_MS == 2000
WAIT_FOR_SYNC_MS == 90000
WAIT_FOR_STATE_UPDATE_MS == 60000
\* dust script
DUST_WAIT_SYNC_MS == 90000
DUST_WAIT_DUST_MS == 120000
DUST_POLL_MS == 3000
\* deploy script
DEPLOY_WAIT_FUNDS_MS == 90000
DEPLOY_WAIT_DUST_MS == 10 * 60000
DEPLOY_POLL_MS == 3000
\* hello-world deploy script
HELLO_WAIT_FOR_FUNDS_MS == 90000
HELLO_WAIT_POLL_MS == 3000

\* loops that test the source first and sleep after a failed test
SyncLoops == {"waitUntilSynced", "waitSynced"}
\* loops that start from the value of the wallet state they already hold
HeldLoops == {"dustWait", "fundsWait", "helloFundsWait"}
PollLoops == SyncLoops \cup HeldLoops \cup {"waitForStatus", "balanceRetry"}
\* rx.firstValueFrom(wallet.state().pipe(rx.filter((s) => s.isSynced)))
RxLoops == {"rxFilterSynced"}
Loops == PollLoops \cup RxLoops

\* A table of deadlines in which every loop got the deploy script's dust wait
WaitMsAllDust(loop) == DEPLOY_WAIT_DUST_MS

\* the time each loop adds to Date.now() for its deadline
WaitMs(loop) ==
  CASE loop = "waitUntilSynced" -> WAIT_FOR_SYNC_MS
    [] loop = "waitSynced" -> DUST_WAIT_SYNC_MS
    [] loop = "waitForStatus" -> WAIT_FOR_STATE_UPDATE_MS
    [] loop = "dustWait" -> DUST_WAIT_DUST_MS
    [] loop = "fundsWait" -> DEPLOY_WAIT_FUNDS_MS
    [] loop = "helloFundsWait" -> HELLO_WAIT_FOR_FUNDS_MS
    [] loop = "balanceRetry" -> DEPLOY_WAIT_DUST_MS
    [] OTHER -> 0

\* A table of delays in which every loop polls at the CLI's interval
PollMsAllCli(loop) == WAIT_POLL_MS

\* the setTimeout delay of each loop
PollMs(loop) ==
  CASE loop \in {"waitUntilSynced", "waitForStatus"} -> WAIT_POLL_MS
    [] loop \in {"waitSynced", "dustWait"} -> DUST_POLL_MS
    [] loop \in {"fundsWait", "balanceRetry"} -> DEPLOY_POLL_MS
    [] loop = "helloFundsWait" -> HELLO_WAIT_POLL_MS
    [] OTHER -> 0

\* what the source answers: "ok" satisfies the predicate (isSynced, a
\* non-zero balance, predicate(status), a balanced recipe), "bad" does not
\* (for the balance retry: 'Not enough Dust generated to pay the fee'),
\* "err" is any other failure of the query or of the balancing
SourceValues == {"bad", "ok", "err"}

\* A predicate test that never succeeds
SatisfiesNever(sample) == FALSE

\* state.isSynced / balance !== 0n / dust !== 0n / predicate(status)
Satisfies(sample) == sample.v = "ok"

\* Every loop ending its timeout with a plain null
TimeoutOutcomeNull(loop) == "null"

\* what each loop does once its deadline has passed without success
TimeoutOutcome(loop) ==
  CASE loop \in SyncLoops -> "timeout"
    [] loop = "waitForStatus" -> "null"
    [] loop = "dustWait" -> "fellthrough"
    [] loop \in {"fundsWait", "helloFundsWait"} -> "zeroBalance"
    [] loop = "balanceRetry" -> "timeout"
    [] OTHER -> "none"

Event(ev, v, d) == [ev |-> ev, t |-> now, v |-> v, d |-> d]

NumSamples == Cardinality({i \in 1..Len(hist) : hist[i].ev # "sleep"})

TakeSample == [n |-> NumSamples + 1, t |-> now, v |-> source]

\* A sleep whose promise is not awaited
SleepNotAwaited(ms) ==
  /\ now' = now
  /\ hist' = hist

\* await new Promise((r) => setTimeout(r, ms))
Sleep(ms) ==
  /\ now' = now + ms
  /\ hist' = Append(hist, Event("sleep", "", ms))

Finish(outcome) ==
  /\ wpc' = "done"
  /\ wres' = outcome

\* the observed source changes
SourceChanges ==
  /\ wloop \in Loops
  /\ wpc # "done"
  /\ \E v \in SourceValues \ {source} : source' = v
  /\ UNCHANGED <<wloop, wpc, now, deadline, started, held, hist, wres>>
  /\ UNCHANGED <<witnessVars, flowVars, signVars, cliVars>>

\* waitUntilSynced (cli.ts) and waitSynced (dust script)
waitUntilSynced ==
  /\ wloop \in SyncLoops
  /\ UNCHANGED <<wloop, source>>
  /\ UNCHANGED <<witnessVars, flowVars, signVars, cliVars>>
  /\ \/ /\ wpc = "start"
        /\ deadline' = now + WaitMs(wloop)
        /\ started' = now
        /\ wpc' = "check"
        /\ UNCHANGED <<now, held, hist, wres>>
     \/ /\ wpc = "check"
        /\ IF now < deadline
             THEN wpc' = "sample" /\ wres' = wres
             ELSE Finish(TimeoutOutcome(wloop))
        /\ UNCHANGED <<now, deadline, started, held, hist>>
     \/ /\ wpc = "sample"
        /\ hist' = Append(hist, Event("sample", source, 0))
        /\ held' = TakeSample
        /\ IF source = "err" THEN Finish("error")
           ELSE IF Satisfies(TakeSample) THEN Finish("returned")
           ELSE wpc' = "sleep" /\ wres' = wres
        /\ UNCHANGED <<now, deadline, started>>
     \/ /\ wpc = "sleep"
        /\ Sleep(PollMs(wloop))
        /\ wpc' = "check"
        /\ UNCHANGED <<deadline, started, held, wres>>

\* waitForStatus (cli.ts)
waitForStatus ==
  /\ wloop = "waitForStatus"
  /\ UNCHANGED <<wloop, source>>
  /\ UNCHANGED <<witnessVars, flowVars, signVars, cliVars>>
  /\ \/ /\ wpc = "start"
        /\ deadline' = now + WaitMs(wloop)
        /\ started' = now
        /\ wpc' = "check"
        /\ UNCHANGED <<now, held, hist, wres>>
     \/ /\ wpc = "check"
        /\ IF now < deadline
             THEN wpc' = "sleep" /\ wres' = wres
             ELSE Finish(TimeoutOutcome(wloop))
        /\ UNCHANGED <<now, deadline, started, held, hist>>
     \/ /\ wpc = "sleep"
        /\ Sleep(PollMs(wloop))
        /\ wpc' = "sample"
        /\ UNCHANGED <<deadline, started, held, wres>>
     \/ /\ wpc = "sample"
        /\ hist' = Append(hist, Event("sample", source, 0))
        /\ held' = TakeSample
        /\ IF source = "err" THEN Finish("error")
           ELSE IF Satisfies(TakeSample) THEN Finish("returned")
           ELSE wpc' = "check" /\ wres' = wres
        /\ UNCHANGED <<now, deadline, started>>

\* the dust wait of the dust script: dust is first computed from the wallet
\* state the script already holds
dustWait ==
  /\ wloop = "dustWait"
  /\ UNCHANGED <<wloop, source>>
  /\ UNCHANGED <<witnessVars, flowVars, signVars, cliVars>>
  /\ \/ /\ wpc = "start"
        /\ deadline' = now + WaitMs(wloop)
        /\ started' = now
        /\ \E v \in {"bad", "ok"} :
             /\ held' = [n |-> 1, t |-> now, v |-> v]
             /\ hist' = Append(hist, Event("held", v, 0))
        /\ wpc' = "check"
        /\ UNCHANGED <<now, wres>>
     \/ /\ wpc = "check"
        /\ IF ~Satisfies(held) /\ now < deadline
             THEN wpc' = "sleep" /\ wres' = wres
             ELSE IF Satisfies(held) THEN Finish("returned")
             ELSE Finish(TimeoutOutcome(wloop))
        /\ UNCHANGED <<now, deadline, started, held, hist>>
     \/ /\ wpc = "sleep"
        /\ Sleep(PollMs(wloop))
        /\ wpc' = "sample"
        /\ UNCHANGED <<deadline, started, held, wres>>
     \/ /\ wpc = "sample"
        /\ hist' = Append(hist, Event("sample", source, 0))
        /\ held' = TakeSample
        /\ IF source = "err" THEN Finish("error")
           ELSE wpc' = "check" /\ wres' = wres
        /\ UNCHANGED <<now, deadline, started>>

\* the funds wait of the deploy scripts: the balance is first read from the
\* state the sync wait returned; a deadline is set only when it is zero
fundsWait ==
  /\ wloop \in {"fundsWait", "helloFundsWait"}
  /\ UNCHANGED <<wloop, source>>
  /\ UNCHANGED <<witnessVars, flowVars, signVars, cliVars>>
  /\ \/ /\ wpc = "start"
        /\ started' = now
        /\ \E v \in {"bad", "ok"} :
             /\ held' = [n |-> 1, t |-> now, v |-> v]
             /\ hist' = Append(hist, Event("held", v, 0))
             /\ deadline' = IF Satisfies([n |-> 1, t |-> now, v |-> v])
                              THEN deadline ELSE now + WaitMs(wloop)
        /\ wpc' = "check"
        /\ UNCHANGED <<now, wres>>
     \/ /\ wpc = "check"
        /\ IF ~Satisfies(held) /\ now < deadline
             THEN wpc' = "sleep" /\ wres' = wres
             ELSE IF Satisfies(held) THEN Finish("returned")
             ELSE Finish(TimeoutOutcome(wloop))
        /\ UNCHANGED <<now, deadline, started, held, hist>>
     \/ /\ wpc = "sleep"
        /\ Sleep(PollMs(wloop))
        /\ wpc' = "sample"
        /\ UNCHANGED <<deadline, started, held, wres>>
     \/ /\ wpc = "sample"
        /\ hist' = Append(hist, Event("sample", source, 0))
        /\ held' = TakeSample
        /\ IF source = "err" THEN Finish("error")
           ELSE wpc' = "check" /\ wres' = wres
        /\ UNCHANGED <<now, deadline, started>>

TTL_MS == 30 * 60 * 1000
CHAIN_SAFETY_MS == 30000

Max(a, b) == IF a >= b THEN a ELSE b

\* what the indexer may answer: no connection, an error status, a body that
\* is not JSON, a GraphQL error list, no timestamp, and timestamps of zero,
\* below, at and above the safety margin
ChainAnswers ==
  {ChainAnswer(TRUE, FALSE, FALSE, 0, <<>>),
   ChainAnswer(FALSE, FALSE, TRUE, 0, <<>>),
   ChainAnswer(FALSE, TRUE, FALSE, 0, <<>>),
   ChainAnswer(FALSE, TRUE, TRUE, 1, <<>>),
   ChainAnswer(FALSE, TRUE, TRUE, 1, <<50000>>),
   ChainAnswer(FALSE, TRUE, TRUE, 0, <<>>)}
  \cup {ChainAnswer(FALSE, TRUE, TRUE, 0, <<ts>>) : ts \in {0, 10000, 30000, 50000}}

\* fetchChainTime: the chain time less the safety margin, or a throw
fetchChainTime(answer) ==
  IF answer.rejected THEN [threw |-> TRUE, time |-> 0]
  ELSE IF ~answer.ok THEN [threw |-> TRUE, time |-> 0]
  ELSE IF ~answer.parses THEN [threw |-> TRUE, time |-> 0]
  ELSE IF answer.errors > 0 THEN [threw |-> TRUE, time |-> 0]
  ELSE IF answer.ts = <<>> \/ answer.ts[1] = 0 THEN [threw |-> TRUE, time |-> 0]
  ELSE [threw |-> FALSE, time |-> Max(0, answer.ts[1] - CHAIN_SAFETY_MS)]

\* A getTtl without its try / catch
getTtlNoCatch(answer, dateNow) ==
  LET chainNow == fetchChainTime(answer)
  IN  [threw |-> chainNow.threw,
       value |-> IF chainNow.threw THEN 0 ELSE chainNow.time + TTL_MS]

\* getTtl: try { chain time + TTL } catch { Date.now() + TTL }
getTtl(answer, dateNow) ==
  LET chainNow == fetchChainTime(answer)
  IN  [threw |-> FALSE,
       value |-> IF chainNow.threw THEN dateNow + TTL_MS ELSE chainNow.time + TTL_MS]

\* one getTtl() call of main at local time dateNow
TtlCall(prev, answer, dateNow) ==
  LET e == getTtl(answer, dateNow)
  IN  [n |-> prev.n + 1, at |-> dateNow, answer |-> answer,
       threw |-> e.threw, value |-> e.value]

\* A balance attempt that passes the expiry computed for the one before it
AttemptTtlReused(prev, answer, dateNow) == prev

\* { ttl: await getTtl() } inside the retry loop
AttemptTtl(prev, answer, dateNow) == TtlCall(prev, answer, dateNow)

\* the balance retry of the deploy script: an attempt is a sample
balanceRetry ==
  /\ wloop = "balanceRetry"
  /\ UNCHANGED <<wloop, source>>
  /\ UNCHANGED <<witnessVars, signVars, cliVars>>
  /\ UNCHANGED <<flow, fpc, plog, perr, out, fund, utxos, tried, txHash, balance, wallets>>
  /\ \/ /\ wpc = "start"
        /\ deadline' = now + WaitMs(wloop)
        /\ started' = now
        /\ wpc' = "sample"
        /\ UNCHANGED <<now, held, hist, wres, ttl>>
     \/ /\ wpc = "sample"
        /\ \E answer \in ChainAnswers :
             /\ ttl' = AttemptTtl(ttl, answer, now)
             /\ hist' = Append(hist, Event("sample", source, 0))
             /\ held' = TakeSample
             /\ IF ttl'.threw THEN Finish("error")
                ELSE IF Satisfies(TakeSample) THEN Finish("returned")
                ELSE IF source = "err" THEN Finish("error")
                ELSE IF now > deadline THEN Finish(TimeoutOutcome(wloop))
                ELSE wpc' = "sleep" /\ wres' = wres
        /\ UNCHANGED <<now, deadline, started>>
     \/ /\ wpc = "sleep"
        /\ Sleep(PollMs(wloop))
        /\ wpc' = "sample"
        /\ UNCHANGED <<deadline, started, held, wres, ttl>>

\* waitSynced of the deploy script, createWalletAndMidnightProvider and the
\* fund script: the first emitted state that passes the filter, no deadline
rxFilterSynced ==
  /\ wloop \in RxLoops
  /\ wpc = "start"
  /\ source # "bad"
  /\ held' = TakeSample
  /\ IF source = "err" THEN Finish("error") ELSE Finish("returned")
  /\ UNCHANGED <<wloop, now, deadline, started, source, hist>>
  /\ UNCHANGED <<witnessVars, flowVars, signVars, cliVars>>

LoopStep ==
  \/ waitUntilSynced
  \/ waitForStatus
  \/ dustWait
  \/ fundsWait
  \/ balanceRetry
  \/ rxFilterSynced

NextWait == LoopStep \/ SourceChanges

InitWait ==
  /\ privateStore = [s \in Slots |-> emptyPrivateState]
  /\ wcall = NoCall
  /\ lastStored = [k \in Keys |-> NoRecord]
  /\ wloop \in Loops
  /\ wpc = "start"
  /\ now \in 0..MaxStart
  /\ deadline = 0
  /\ started = 0
  /\ source \in SourceValues
  /\ held = NoSample
  /\ hist = <<>>
  /\ wres = "none"
  /\ FlowIdle
  /\ fund = NoFund
  /\ wallets = NoWallets
  /\ SignIdle
  /\ CliIdle

SpecWait == InitWait /\ [][NextWait]_vars

\* the event loop runs a loop's continuation whenever it can run, and an
\* observable hands every state it emits to its subscriber
SpecWaitFair ==
  InitWait /\ [][NextWait]_vars /\ WF_vars(LoopStep) /\ SF_vars(rxFilterSynced)

-----------------------------------------------------------------------------
\* C1: a client storeAge(k, r) returns a state that maps k to r and maps every
\* other key to exactly the record the input state held for it, and the input
\* state is the same after the call as before it.
C1_StoreAgeMapUpdate ==
  (wcall.role = "client" /\ wcall.op = "storeAge") =>
    LET r == wcall.result
        hk == keyHex(wcall.key)
    IN  /\ ~r.threw
        /\ r.values = <<>>
        /\ r.state.tag = "object" /\ r.state.entriesTag = "object"
        /\ Lookup(r.state.entries, hk)
             = <<[age |-> wcall.age, saltHex |-> keyHex(wcall.salt)]>>
        /\ \A h \in (HexKeys \cup DOMAIN r.state.entries) \ {hk} :
             Lookup(r.state.entries, h) = HeldBy(wcall.input, h)
        /\ r.ctx = wcall.input

C1_Witness ==
  /\ wcall.role = "client" /\ wcall.op = "storeAge"
  /\ \E h \in DOMAIN wcall.input.entries : h # keyHex(wcall.key)
  /\ keyHex(wcall.key) \in DOMAIN wcall.input.entries
  /\ wcall.input.entries[keyHex(wcall.key)].age # wcall.age

\* C2: after any sequence of client storeAge calls from the empty state,
\* loadAge(k) of a stored key k returns the age and salt of the latest
\* storeAge on k, so two different keys stored one after the other are both
\* retrievable.
C2_LoadReturnsLatestStore ==
  /\ \A k \in Keys :
       lastStored[k] # NoRecord =>
         LET r == ClientLoadAge(ClientState, k)
         IN  ~r.threw /\ r.values = <<lastStored[k].age, lastStored[k].salt>>
  /\ (wcall.role = "client" /\ wcall.op = "loadAge"
        /\ lastStored[wcall.key] # NoRecord) =>
       /\ ~wcall.result.threw
       /\ wcall.result.values
            = <<lastStored[wcall.key].age, lastStored[wcall.key].salt>>

C2_Witness ==
  /\ wcall.role = "client" /\ wcall.op = "loadAge" /\ ~wcall.result.threw
  /\ \A k \in Keys : lastStored[k] # NoRecord
  /\ \E k \in Keys : lastStored[k] # lastStored[wcall.key]

\* C3: a client loadAge on a key that was never stored fails with the
\* missing-record error, also on an absent or malformed private state; it
\* returns no record and no state, and leaves the private state as it was.
C3_LoadMissingFails ==
  /\ \A k \in Keys :
       lastStored[k] = NoRecord =>
         LET r == ClientLoadAge(ClientState, k)
         IN  r.threw /\ r.msg = MissingRecordMsg /\ r.values = <<>>
  /\ (wcall.role = "client" /\ wcall.op = "loadAge"
        /\ lastStored[wcall.key] = NoRecord) =>
       /\ wcall.result.threw
       /\ wcall.result.msg = MissingRecordMsg
       /\ wcall.result.values = <<>>
       /\ wcall.result.state = NoState
       /\ wcall.result.ctx = wcall.input
       /\ ClientState = wcall.input
       /\ HeldBy(ClientState, keyHex(wcall.key)) = <<>>

C3_Witness ==
  /\ wcall.role = "client" /\ wcall.op = "loadAge" /\ wcall.result.threw
  /\ lastStored[wcall.key] = NoRecord
  /\ \E k \in Keys : lastStored[k] # NoRecord /\ lastStored[k].age = 0

C3_WitnessMalformed ==
  /\ wcall.role = "client" /\ wcall.op = "loadAge" /\ wcall.result.threw
  /\ wcall.input \in {JsUndefined, JsPrimitive, ObjNoEntries, ObjBadEntries}

\* C4: the bartender's witnesses fail every storeAge and every loadAge call,
\* whatever the key, age, salt and private state, and return no state.
C4_BartenderAlwaysFails ==
  wcall.role = "bartender" =>
       /\ wcall.result.threw
       /\ wcall.result.state = NoState
       /\ wcall.result.values = <<>>
       /\ wcall.result.msg
            = (IF wcall.op = "storeAge" THEN StoreClientOnlyMsg ELSE LoadClientOnlyMsg)
       /\ BartenderState = wcall.input

C4_Witness ==
  /\ wcall.role = "bartender" /\ wcall.op = "storeAge" /\ wcall.result.threw
  /\ wcall.input # emptyPrivateState
  /\ \E k \in Keys : lastStored[k] # NoRecord

\* C5: in one CLI run the two roles' witness states are separate: the
\* bartender's witness state is empty in every reachable state, whatever the
\* client has stored.
C5_RolesSeparate ==
  /\ BartenderState = emptyPrivateState
  /\ (wcall.role = "client" /\ ~wcall.result.threw) =>
       ClientState = wcall.result.state

C5_Witness ==
  /\ wcall.role = "bartender"
  /\ \A k \in Keys : HeldBy(ClientState, keyHex(k)) # <<>>
  /\ BartenderState = emptyPrivateState

-----------------------------------------------------------------------------
(* Properties of the wait and retry loops *)

\* the wait loops proper: every polling loop but the balance retry
WaitLoops == PollLoops \ {"balanceRetry"}

Tests == {i \in 1..Len(hist) : hist[i].ev # "sleep"}

NoneSatisfied == \A i \in Tests : hist[i].v # "ok"

TimeoutResults == {"timeout", "null", "fellthrough", "zeroBalance"}

\* C6 as stated: every wait loop tests its source on entry, before any
\* sleep.
C6_SamplesOnEntry ==
  (wloop \in WaitLoops /\ hist # <<>>) => hist[1].ev # "sleep"

\* C6 as amended: waitUntilSynced and waitSynced sample on entry, the funds
\* and dust waits first test the value of the wallet state they hold,
\* waitForStatus sleeps one poll interval before its first sample; from then
\* on each loop samples once per poll interval, and it ends with the first
\* tested value that satisfies the predicate.
C6_SamplingOrder ==
  wloop \in WaitLoops =>
    /\ hist # <<>> =>
         /\ hist[1].t = started
         /\ hist[1].ev = (IF wloop \in SyncLoops THEN "sample"
                          ELSE IF wloop \in HeldLoops THEN "held" ELSE "sleep")
    /\ \A i \in Tests :
         /\ hist[i].ev = "held" => i = 1
         /\ i > 2 => hist[i].t = hist[i - 2].t + PollMs(wloop)
         /\ (i = 2 /\ wloop = "waitForStatus") => hist[i].t = started + WAIT_POLL_MS
         /\ hist[i].v = "ok" =>
              /\ i = Len(hist)
              /\ wpc = "done" => (wres = "returned" /\ held.v = "ok" /\ held.t = hist[i].t)
    /\ wres = "returned" => (hist # <<>> /\ hist[Len(hist)].v = "ok")

C6_Witness ==
  /\ wloop = "waitForStatus"
  /\ wres = "returned"
  /\ Cardinality(Tests) >= 3
  /\ hist[1].ev = "sleep"

\* C7 as stated: a wait whose deadline elapses before any tested value
\* satisfies the predicate ends in an error, never in a normal return.
C7_TimeoutIsFailure ==
  (wloop \in PollLoops /\ wpc = "done" /\ NoneSatisfied /\ wres # "error") =>
    wres \in {"timeout", "zeroBalance"}

\* C7 as amended: when the deadline elapses first, waitUntilSynced, waitSynced
\* and the balance retry throw a timeout error and the funds waits fail with
\* the zero-balance error; waitForStatus returns null and the dust wait ends
\* normally with the zero balance.
C7_TimeoutOutcomes ==
  /\ (wloop \in PollLoops /\ wpc = "done" /\ NoneSatisfied /\ wres # "error") =>
       /\ now >= deadline
       /\ wloop \in {"waitUntilSynced", "waitSynced", "balanceRetry"} => wres = "timeout"
       /\ wloop \in {"fundsWait", "helloFundsWait"} => wres = "zeroBalance"
       /\ wloop = "waitForStatus" => wres = "null"
       /\ wloop = "dustWait" => wres = "fellthrough"
  /\ (wloop \in PollLoops /\ wres \in TimeoutResults) =>
       (wpc = "done" /\ NoneSatisfied /\ now >= deadline)

C7_Witness ==
  /\ wloop = "waitForStatus"
  /\ wpc = "done"
  /\ wres = "null"
  /\ Cardinality(Tests) = WAIT_FOR_STATE_UPDATE_MS \div WAIT_POLL_MS

\* C8: every wait for wallet sync, for funds or fee resource and for a
\* contract-state change terminates, by return or by failure, whatever the
\* observed source does.
C8_EveryWaitTerminates == <>(wpc = "done")

\* the time allowed to each loop: its wait plus one poll interval
LimitMs(loop) ==
  CASE loop = "waitUntilSynced" -> WAIT_FOR_SYNC_MS + WAIT_POLL_MS
    [] loop = "waitSynced" -> DUST_WAIT_SYNC_MS + DUST_POLL_MS
    [] loop = "waitForStatus" -> WAIT_FOR_STATE_UPDATE_MS + WAIT_POLL_MS
    [] loop = "dustWait" -> DUST_WAIT_DUST_MS + DUST_POLL_MS
    [] loop = "fundsWait" -> DEPLOY_WAIT_FUNDS_MS + DEPLOY_POLL_MS
    [] loop = "helloFundsWait" -> HELLO_WAIT_FOR_FUNDS_MS + HELLO_WAIT_POLL_MS
    [] loop = "balanceRetry" -> DEPLOY_WAIT_DUST_MS + DEPLOY_POLL_MS
    [] OTHER -> 0

\* C9: with a clock that advances only in the sleeps, a deadline-bounded wait
\* that never sees its predicate hold ends by its timeout no later than its
\* wait plus one poll interval after it started, and no sample of it is taken
\* after that instant.
C9_TimeoutWithinLimit ==
  (wloop \in PollLoops /\ wpc # "start" /\ NoneSatisfied) =>
    /\ \A i \in Tests : hist[i].t <= started + LimitMs(wloop)
    /\ wpc = "done" => now <= started + LimitMs(wloop)
    /\ now > started + LimitMs(wloop) - PollMs(wloop) => wpc \in {"check", "sample", "done"}

C9_Witness ==
  /\ wloop = "waitForStatus"
  /\ wres = "null"
  /\ held.t >= deadline
  /\ now = started + WAIT_FOR_STATE_UPDATE_MS

\* C10: in every polling or retry loop two consecutive samples or attempts
\* are separated by exactly one sleep of the loop's poll interval.
C10_SleepBetweenSamples ==
  wloop \in PollLoops =>
    \A i \in 1..(Len(hist) - 1) :
      /\ hist[i].ev # "sleep" =>
           /\ hist[i + 1].ev = "sleep"
           /\ hist[i + 1].d = PollMs(wloop)
           /\ hist[i + 1].t = hist[i].t
      /\ hist[i].ev = "sleep" =>
           /\ hist[i + 1].ev = "sample"
           /\ hist[i + 1].t = hist[i].t + hist[i].d
           /\ hist[i].d > 0

C10_Witness ==
  /\ wloop = "balanceRetry"
  /\ Cardinality(Tests) >= 3
  /\ wres = "returned"

-----------------------------------------------------------------------------
(* Submission flows: the deploy script (compose, balance with retry, sign,  *)
(* finalize, submit, record), the hello-world deploy script, the transfer   *)
(* of the fund script, and a contract call of a CLI menu command (the       *)
(* provider's balanceTx and submitTx, then the status wait).                *)

Pipelines == {"deploy", "helloDeploy", "transfer", "contractCall"}
Flows == Pipelines \cup {"dust", "dappDeploy"}

\* A pipeline that proves (finalizes) before it signs
StageOrderProveFirst(f) ==
  CASE f \in {"deploy", "helloDeploy"} ->
         <<"compose", "balance", "prove", "sign", "submit", "record">>
    [] f = "transfer" -> <<"compose", "prove", "sign", "submit">>
    [] f = "contractCall" -> <<"balance", "prove", "sign", "submit", "wait">>
    [] f = "dappDeploy" -> <<"deployContract", "record">>
    [] OTHER -> <<>>

\* the awaited calls of each pipeline, in the order of the code:
\*   compose  Transaction.fromParts / wallet.transferTransaction
\*   balance  balanceUnprovenTransaction / balanceTransaction /
\*            balanceUnboundTransaction
\*   sign     signUnprovenTransaction / signTransaction / signTransactionIntents
\*   prove    finalizeTransaction / finalizeRecipe ('Transaction proof generated')
\*   submit   submitTransaction
\*   record   fs.writeFileSync(deployment.json)
\*   wait     waitForStatus
\* (the dapp's deploy awaits deployContract of the contracts library, which
\* composes, balances, proves and submits through the providers)
StageOrder(f) ==
  CASE f \in {"deploy", "helloDeploy"} ->
         <<"compose", "balance", "sign", "prove", "submit", "record">>
    [] f = "transfer" -> <<"compose", "sign", "prove", "submit">>
    [] f = "contractCall" -> <<"balance", "sign", "prove", "submit", "wait">>
    [] f = "dappDeploy" -> <<"deployContract", "record">>
    [] OTHER -> <<>>

StageNames == {"compose", "balance", "sign", "prove", "submit", "record", "wait"}

FirstStage(f) == StageOrder(f)[1]

\* A pipeline that submits the finalized transaction again once it was accepted
AfterSubmitAgain(f, stage) ==
  LET order == StageOrder(f)
      i == CHOOSE j \in 1..Len(order) : order[j] = stage
  IN  IF stage = "submit" THEN "submit"
      ELSE IF i < Len(order) THEN order[i + 1] ELSE "done"

\* A pipeline that signs the recipe again once it was signed
AfterSignAgain(f, stage) ==
  LET order == StageOrder(f)
      i == CHOOSE j \in 1..Len(order) : order[j] = stage
  IN  IF stage = "sign" THEN "sign"
      ELSE IF i < Len(order) THEN order[i + 1] ELSE "done"

\* the stage that follows a stage which returned
After(f, stage) ==
  LET order == StageOrder(f)
      i == CHOOSE j \in 1..Len(order) : order[j] = stage
  IN  IF i < Len(order) THEN order[i + 1] ELSE "done"

\* the loop a flow runs, and the stage that is that loop
LoopOf(f) ==
  CASE f = "deploy" -> "balanceRetry"
    [] f = "contractCall" -> "waitForStatus"
    [] OTHER -> "none"

\* A deploy script that balances once, outside any retry loop
LoopStageNoRetry(f) ==
  CASE f = "contractCall" -> "wait"
    [] OTHER -> "none"

LoopStage(f) ==
  CASE f = "deploy" -> "balance"
    [] f = "contractCall" -> "wait"
    [] OTHER -> "none"

\* how an awaited call ends: "ok" it returns, "dust" it throws 'Not enough
\* Dust generated to pay the fee', "err" it throws anything else
StageResults(stage) ==
  IF stage = "balance" THEN {"ok", "dust", "err"} ELSE {"ok", "err"}

DustMsg == "Not enough Dust generated to pay the fee"
DustTimeoutMsg == "Timed out waiting for dust."

\* the error a failed call throws
ErrorOf(stage, result) ==
  [stage |-> stage, msg |-> IF result = "dust" THEN DustMsg ELSE "other"]

StageEntry(stage, result) == [stage |-> stage, result |-> result]

\* A failure handler that swallows the error and goes on with the next stage
AbortAndGoOn(err) ==
  /\ fpc' = IF fpc \in StageNames THEN After(flow, fpc)
            ELSE IF flow \in Pipelines THEN FirstStage(flow) ELSE "done"
  /\ perr' = perr
  /\ out' = out

\* a thrown error leaves the flow: main().catch prints it and exits 1 (deploy
\* scripts), the catch of the fund script logs it, the catch of the menu
\* command prints the command's failure line
Abort(err) ==
  /\ fpc' = "failed"
  /\ perr' = err
  /\ out' = IF flow = "contractCall" THEN Append(out, "failed") ELSE out

-----------------------------------------------------------------------------
(* The fund script.  Its argument is a sequence of pieces of text: the      *)
(* address prefixes, "_", network names, the bech32 separator "1", "data",  *)
(* mnemonic words and blanks; startsWith compares piece by piece.           *)

SHIELDED_PREFIX == <<"mn_shield-addr">>
UNSHIELDED_PREFIX == <<"mn_addr", "_">>
EXPECTED_SHIELDED == <<"mn_shield-addr", "_", "undeployed">>
EXPECTED_UNSHIELDED == <<"mn_addr", "_", "undeployed">>

\* arg.startsWith(prefix)
startsWith(arg, prefix) ==
  Len(prefix) <= Len(arg) /\ SubSeq(arg, 1, Len(prefix)) = prefix

Wordlist == {"abandon", "about"}

\* bip39.validateMnemonic, scaled down: three words of the word list, single
\* blanks between them, and the last word carrying the checksum
validateMnemonic(arg) ==
  /\ Len(arg) = 5
  /\ arg[1] \in Wordlist /\ arg[3] \in Wordlist /\ arg[5] \in Wordlist
  /\ arg[2] = " " /\ arg[4] = " "
  /\ arg[5] = "about"

\* what is typed after `yarn fund`: nothing, mnemonics with and without a
\* valid checksum, addresses of both kinds for two networks, address prefixes
\* followed by something else, and other text
FundArgs ==
  {<<>>, <<"x">>,
   <<"abandon", " ", "abandon", " ", "about">>,
   <<"abandon", " ", "about", " ", "abandon">>,
   <<"abandon", " ", "about">>}
  \cup {<<k, "_", net, "1", "data">> :
          k \in {"mn_shield-addr", "mn_addr", "mn_unshield-addr"},
          net \in {"undeployed", "testnet"}}
  \cup {<<k, "_", "undeployed">> : k \in {"mn_shield-addr", "mn_addr"}}
  \cup {<<k, "_", "undeployed", "x", "1", "data">> : k \in {"mn_shield-addr", "mn_addr"}}
  \cup {<<"mn_shield-addr", "x">>, <<"mn_addr", "x">>}

\* process.exit(2)
Exit2 == [exit |-> 2, input |-> NoCliInput]

Classified(input) == [exit |-> 0, input |-> input]

\* A classification that takes every text for an unshielded address
getReceiverMnemonicsFromArgsLax(arg) ==
  IF arg = <<>> THEN Exit2
  ELSE IF validateMnemonic(arg) THEN Classified(CliInput(arg, <<>>, <<>>))
  ELSE IF startsWith(arg, EXPECTED_SHIELDED) THEN Classified(CliInput(<<>>, arg, <<>>))
  ELSE Classified(CliInput(<<>>, <<>>, arg))

\* getReceiverMnemonicsFromArgs
getReceiverMnemonicsFromArgs(arg) ==
  IF arg = <<>> THEN Exit2
  ELSE IF validateMnemonic(arg) THEN Classified(CliInput(arg, <<>>, <<>>))
  ELSE LET isShielded == startsWith(arg, SHIELDED_PREFIX)
           isUnshielded == startsWith(arg, UNSHIELDED_PREFIX)
           expectedPrefix == IF isShielded THEN EXPECTED_SHIELDED ELSE EXPECTED_UNSHIELDED
       IN  IF isShielded \/ isUnshielded
             THEN IF ~startsWith(arg, expectedPrefix) THEN Exit2
                  ELSE IF isShielded THEN Classified(CliInput(<<>>, arg, <<>>))
                  ELSE Classified(CliInput(<<>>, <<>>, arg))
             ELSE Exit2

\* the outputs main builds: the unshielded one first, then the shielded one
OutputsOf(input) ==
  (IF input.unshieldedAddress # <<>>
     THEN <<[type |-> "unshielded", receiverAddress |-> input.unshieldedAddress]>>
     ELSE <<>>)
  \o (IF input.shieldedAddress # <<>>
        THEN <<[type |-> "shielded", receiverAddress |-> input.shieldedAddress]>>
        ELSE <<>>)

\* the addresses main derives from the receiver wallet of a mnemonic
DerivedShielded == <<"mn_shield-addr", "_", "undeployed", "1", "data">>
DerivedUnshielded == <<"mn_addr", "_", "undeployed", "1", "data">>

\* let cliInput = getReceiverMnemonicsFromArgs()
classifyArg ==
  /\ flow = "transfer"
  /\ fpc = "args"
  /\ LET c == getReceiverMnemonicsFromArgs(fund.arg)
     IN  /\ fund' = [fund EXCEPT !.input = c.input, !.exitCode = c.exit]
         /\ fpc' = IF c.exit # 0 THEN "exited"
                   ELSE IF c.input.mnemonic # <<>> THEN "receiver" ELSE "sender"
  /\ UNCHANGED <<flow, plog, perr, out, utxos, tried, txHash, balance, ttl, wallets>>
  /\ UNCHANGED waitVars
  /\ UNCHANGED <<witnessVars, signVars, cliVars>>

\* if (cliInput.mnemonic) { ... }: outside the try, so a throw reaches
\* main().catch, which exits with code 1
initReceiver ==
  /\ flow = "transfer"
  /\ fpc = "receiver"
  /\ \E r \in {"ok", "initErr", "syncErr"} :
       /\ wallets' = IF r = "initErr" THEN wallets ELSE Started(wallets, {"receiver"})
       /\ IF r = "ok"
            THEN /\ fund' = [fund EXCEPT !.input.shieldedAddress = DerivedShielded,
                                         !.input.unshieldedAddress = DerivedUnshielded]
                 /\ fpc' = "sender"
                 /\ UNCHANGED <<perr, out>>
            ELSE /\ fund' = [fund EXCEPT !.exitCode = 1]
                 /\ Abort([stage |-> "receiver", msg |-> "other"])
  /\ UNCHANGED <<flow, plog, utxos, tried, txHash, balance, ttl>>
  /\ UNCHANGED waitVars
  /\ UNCHANGED <<witnessVars, signVars, cliVars>>

\* the head of the try block: the sender wallet and the outputs; a throw is
\* caught, sets process.exitCode = 1, and finally stops the wallets pushed
initSender ==
  /\ flow = "transfer"
  /\ fpc = "sender"
  /\ \E r \in {"ok", "initErr", "syncErr"} :
       IF r = "ok"
         THEN /\ wallets' = Started(wallets, {"sender"})
              /\ fund' = [fund EXCEPT !.outputs = OutputsOf(fund.input)]
              /\ fpc' = FirstStage(flow)
              /\ UNCHANGED <<perr, out>>
         ELSE /\ wallets' = Stopped(IF r = "syncErr" THEN Started(wallets, {"sender"})
                                                     ELSE wallets, {"receiver"})
              /\ fund' = [fund EXCEPT !.exitCode = 1]
              /\ Abort([stage |-> "sender", msg |-> "other"])
  /\ UNCHANGED <<flow, plog, utxos, tried, txHash, balance, ttl>>
  /\ UNCHANGED waitVars
  /\ UNCHANGED <<witnessVars, signVars, cliVars>>

\* the wallets a flow stops when its main returns, and when a stage throws
StoppedAtEnd(f) ==
  CASE f \in {"deploy", "dust"} -> {"script"}
    [] f = "transfer" -> {"receiver", "sender"}
    [] OTHER -> {}

StoppedOnThrow(f) == IF f = "transfer" THEN {"receiver", "sender"} ELSE {}

ZeroBalanceMsg == "Balance is 0. Run yarn fund first."

\* the shielded balance main holds when its funds wait has ended (0n or more)
Balances == {0, 1}

\* A funds check that lets every balance through
HasFundsAlways(b) == TRUE

\* !(balance === 0n)
HasFunds(b) == b # 0

\* if (balance === 0n) throw new Error('Balance is 0. Run yarn fund first.')
CheckFunds ==
  /\ flow = "deploy"
  /\ fpc = "funds"
  /\ IF HasFunds(balance)
       THEN fpc' = FirstStage(flow) /\ UNCHANGED <<perr, out>>
       ELSE Abort([stage |-> "funds", msg |-> ZeroBalanceMsg])
  /\ UNCHANGED <<flow, plog, fund, utxos, tried, txHash, balance, ttl, wallets>>
  /\ UNCHANGED waitVars
  /\ UNCHANGED <<witnessVars, signVars, cliVars>>

\* one awaited call of a pipeline, outside its loop
RunStage ==
  /\ flow \in Pipelines
  /\ fpc \in StageNames
  /\ fpc # LoopStage(flow)
  /\ IF flow = "deploy" /\ fpc = "compose"
       THEN \E answer \in ChainAnswers : ttl' = TtlCall(ttl, answer, now)
       ELSE ttl' = ttl
  /\ \E r \in StageResults(fpc) :
       /\ plog' = Append(plog, StageEntry(fpc, IF ttl'.threw THEN "err" ELSE r))
       /\ IF r = "ok" /\ ~ttl'.threw
            THEN /\ fpc' = After(flow, fpc)
                 /\ perr' = perr
                 /\ out' = IF fpc = "record" THEN Append(out, "deployment.json")
                                             ELSE out
                 /\ wpc' = IF After(flow, fpc) = LoopStage(flow) THEN "start" ELSE wpc
                 /\ wallets' = IF After(flow, fpc) = "done"
                                THEN Stopped(wallets, StoppedAtEnd(flow)) ELSE wallets
                 /\ fund' = fund
            ELSE /\ Abort(ErrorOf(fpc, r))
                 /\ wpc' = wpc
                 /\ wallets' = Stopped(wallets, StoppedOnThrow(flow))
                 /\ fund' = IF flow = "transfer" THEN [fund EXCEPT !.exitCode = 1]
                                               ELSE fund
  /\ UNCHANGED <<wloop, now, deadline, started, source, held, hist, wres>>
  /\ UNCHANGED <<flow, utxos, tried, txHash, balance>>
  /\ UNCHANGED <<witnessVars, signVars, cliVars>>

\* the flow goes on after its loop has ended: the deploy script after the
\* balance retry (break / throw), the menu command after waitForStatus
LoopReturns ==
  /\ flow \in Pipelines
  /\ fpc = LoopStage(flow)
  /\ wpc = "done"
  /\ IF flow = "deploy"
       THEN IF wres = "returned"
              THEN /\ plog' = Append(plog, StageEntry("balance", "ok"))
                   /\ fpc' = After(flow, fpc)
                   /\ UNCHANGED <<perr, out>>
              ELSE IF wres = "timeout"
                THEN /\ plog' = Append(plog, StageEntry("balance", "dust"))
                     /\ Abort([stage |-> "balance", msg |-> DustTimeoutMsg])
                ELSE /\ plog' = Append(plog, StageEntry("balance", "err"))
                     /\ Abort(ErrorOf("balance", "err"))
       ELSE IF wres = "returned"
              THEN /\ plog' = Append(plog, StageEntry("wait", "ok"))
                   /\ fpc' = "done"
                   /\ out' = Append(out, "updated")
                   /\ perr' = perr
              ELSE IF wres = "null"
                THEN /\ plog' = Append(plog, StageEntry("wait", "null"))
                     /\ fpc' = "done"
                     /\ out' = Append(out, "Timed out waiting for state update.")
                     /\ perr' = perr
                ELSE /\ plog' = Append(plog, StageEntry("wait", "err"))
                     /\ Abort(ErrorOf("wait", "err"))
  /\ UNCHANGED waitVars
  /\ UNCHANGED <<flow, fund, utxos, tried, txHash, balance, ttl, wallets>>
  /\ UNCHANGED <<witnessVars, signVars, cliVars>>

-----------------------------------------------------------------------------
(* The dust script: one registration attempt per available unshielded coin, *)
(* by descending value, until one is accepted.                              *)

\* the model's bounds on state.unshielded.availableCoins
MaxUtxos == 3
MaxValue == 2

UtxoLists == UNION {[1..n -> 1..MaxValue] : n \in 0..MaxUtxos}

RECURSIVE InsertDesc(_, _, _)
\* where the comparator Number(b.utxo.value - a.utxo.value) puts coin i
InsertDesc(sorted, i, vals) ==
  IF sorted = <<>> THEN <<i>>
  ELSE IF vals[Head(sorted)] - vals[i] >= 0
    THEN <<Head(sorted)>> \o InsertDesc(Tail(sorted), i, vals)
    ELSE <<i>> \o sorted

RECURSIVE SortDesc(_, _)
SortDesc(k, vals) ==
  IF k = 0 THEN <<>> ELSE InsertDesc(SortDesc(k - 1, vals), k, vals)

\* A candidate list that is the coins in the order the wallet lists them
CandidatesUnsorted(vals) == [i \in 1..Len(vals) |-> i]

\* [...utxos].sort(...): the coins (by index) in the order they are attempted
Candidates(vals) == SortDesc(Len(vals), vals)

IneligibleMsg == "Invalid Transaction: Custom error: 139"
NoUtxosMsg == "No unshielded NIGHT UTXOs. Run yarn fund first."
NoneAcceptedMsg == "No UTXO accepted for dust registration."

\* A test that takes every error for the ineligible-input rejection
IncludesAnyError(msg) == TRUE

\* msg.includes('Custom error: 139')
Includes139(msg) == msg = IneligibleMsg

\* what submitTransaction may resolve to: a string
Hashes == {"", "0xa1"}

AttemptSteps == {"build", "finalize", "submit"}

\* how one pass through the try block ends: registerNightUtxosForDustGeneration,
\* finalizeRecipe or submitTransaction throws, or submitTransaction returns
AttemptOutcomes ==
  {[step |-> st, threw |-> TRUE, msg |-> m, hash |-> ""] :
     st \in AttemptSteps, m \in {IneligibleMsg, "other"}}
  \cup {[step |-> "submit", threw |-> FALSE, msg |-> "", hash |-> h] : h \in Hashes}

\* if (!utxos.length) throw ...
CheckUtxos ==
  /\ flow = "dust"
  /\ fpc = "utxos"
  /\ IF Len(utxos) = 0
       THEN Abort([stage |-> "utxos", msg |-> NoUtxosMsg])
       ELSE fpc' = "attempt" /\ UNCHANGED <<perr, out>>
  /\ UNCHANGED <<flow, plog, fund, utxos, tried, txHash, balance, ttl, wallets>>
  /\ UNCHANGED waitVars
  /\ UNCHANGED <<witnessVars, signVars, cliVars>>

\* one iteration of the for loop over the sorted candidates
AttemptCandidate ==
  /\ flow = "dust"
  /\ fpc = "attempt"
  /\ LET cands == Candidates(utxos)
         next == Len(tried) + 1
     IN  \E o \in AttemptOutcomes :
           /\ tried' = Append(tried, [utxo |-> cands[next], step |-> o.step,
                                      threw |-> o.threw, msg |-> o.msg,
                                      hash |-> o.hash])
           /\ IF ~o.threw
                THEN /\ txHash' = o.hash
                     /\ fpc' = "report"
                     /\ UNCHANGED <<perr, out>>
                ELSE IF Includes139(o.msg)
                  THEN /\ fpc' = IF next = Len(cands) THEN "report" ELSE "attempt"
                       /\ UNCHANGED <<txHash, perr, out>>
                  ELSE /\ Abort([stage |-> o.step, msg |-> o.msg])
                       /\ txHash' = txHash
  /\ UNCHANGED <<flow, plog, fund, utxos, balance, ttl, wallets>>
  /\ UNCHANGED waitVars
  /\ UNCHANGED <<witnessVars, signVars, cliVars>>

\* if (!txHash) throw ...; console.log('Registered:', txHash)
ReportRegistration ==
  /\ flow = "dust"
  /\ fpc = "report"
  /\ IF txHash = ""
       THEN /\ Abort([stage |-> "report", msg |-> NoneAcceptedMsg])
            /\ wallets' = wallets
       ELSE /\ fpc' = "done"
            /\ wallets' = Stopped(wallets, StoppedAtEnd(flow))
            /\ out' = Append(out, "Registered: " \o txHash)
            /\ perr' = perr
  /\ UNCHANGED <<flow, plog, fund, utxos, tried, txHash, balance, ttl>>
  /\ UNCHANGED waitVars
  /\ UNCHANGED <<witnessVars, signVars, cliVars>>

\* A deployment record without the transaction hash in every script
RecordFieldsNoHash(f) == {"contractAddress", "deployedAt"}

\* the fields of the object each deploy script writes to deployment.json
RecordFields(f) ==
  IF f = "dappDeploy" THEN {"contractAddress", "deployedAt"}
                      ELSE {"contractAddress", "deployedAt", "txHash"}

\* the dapp's deploy: await deployContract(providers, ...), then
\* fs.writeFileSync("deployment.json", ...); its catch prints 'Failed:'
dappDeploy ==
  /\ flow = "dappDeploy"
  /\ fpc \in {"deployContract", "record"}
  /\ \E r \in StageResults(fpc) :
       /\ plog' = Append(plog, StageEntry(fpc, r))
       /\ IF r = "ok"
            THEN /\ fpc' = After(flow, fpc)
                 /\ perr' = perr
                 /\ out' = IF fpc = "record" THEN Append(out, "deployment.json")
                                             ELSE out
            ELSE Abort(ErrorOf(fpc, r))
  /\ UNCHANGED <<flow, fund, utxos, tried, txHash, balance, ttl, wallets>>
  /\ UNCHANGED waitVars
  /\ UNCHANGED <<witnessVars, signVars, cliVars>>

NextFlow ==
  \/ RunStage
  \/ dappDeploy
  \/ LoopReturns
  \/ balanceRetry
  \/ waitForStatus
  \/ SourceChanges
  \/ classifyArg
  \/ initReceiver
  \/ initSender
  \/ CheckFunds
  \/ CheckUtxos
  \/ AttemptCandidate
  \/ ReportRegistration

InitFlow ==
  /\ privateStore = [s \in Slots |-> emptyPrivateState]
  /\ wcall = NoCall
  /\ lastStored = [k \in Keys |-> NoRecord]
  /\ flow \in Flows
  /\ fpc = CASE flow = "dust" -> "utxos"
             [] flow = "deploy" -> "funds"
             [] flow = "transfer" -> "args"
             [] OTHER -> FirstStage(flow)
  /\ plog = <<>>
  /\ perr = NoError
  /\ out = <<>>
  /\ utxos \in IF flow = "dust" THEN UtxoLists ELSE {<<>>}
  /\ tried = <<>>
  /\ txHash = ""
  /\ balance \in IF flow = "deploy" THEN Balances ELSE {0}
  /\ ttl = NoTtl
  /\ fund \in IF flow = "transfer" THEN {[NoFund EXCEPT !.arg = a] : a \in FundArgs}
                                   ELSE {NoFund}
  /\ wallets = IF flow \in {"deploy", "dust"} THEN Started(NoWallets, {"script"})
                                              ELSE NoWallets
  /\ wloop = LoopOf(flow)
  /\ wpc = "idle"
  /\ now \in 0..MaxStart
  /\ deadline = 0
  /\ started = 0
  /\ source \in IF LoopOf(flow) = "none" THEN {"bad"} ELSE SourceValues
  /\ held = NoSample
  /\ hist = <<>>
  /\ wres = "none"
  /\ SignIdle
  /\ CliIdle

SpecFlow == InitFlow /\ [][NextFlow]_vars

-----------------------------------------------------------------------------
\* position of a stage in an order of stages (0 when the order lacks it)
Rank(order, stage) ==
  IF \E i \in 1..Len(order) : order[i] = stage
    THEN CHOOSE i \in 1..Len(order) : order[i] = stage
    ELSE 0

\* the stages of plog that an order names follow that order, one entry each,
\* and every stage but the last one logged has returned
RunsInOrder(order) ==
  /\ \A i, j \in 1..Len(plog) :
       (i < j /\ Rank(order, plog[i].stage) > 0 /\ Rank(order, plog[j].stage) > 0)
         => Rank(order, plog[i].stage) < Rank(order, plog[j].stage)
  /\ \A i \in 1..Len(plog) : i < Len(plog) => plog[i].result = "ok"

-----------------------------------------------------------------------------
\* the balance attempts of the deploy script are the samples of its retry loop
IsAttempt(e) == e.ev = "sample"

\* C12: in the deploy pipeline a balance attempt that fails for lack of dust
\* at or before the deadline is followed by one sleep of the poll interval and
\* then by another attempt; one that fails after the deadline is the last, the
\* retry ends in the timeout and the pipeline fails with 'Timed out waiting
\* for dust.'; the number of attempts never exceeds deadline / poll + 2.
C12_BalanceRetried ==
  flow = "deploy" =>
    /\ \A i \in 1..Len(hist) :
         (IsAttempt(hist[i]) /\ hist[i].v = "bad") =>
           IF hist[i].t > deadline
             THEN /\ i = Len(hist)
                  /\ wpc = "done" /\ wres = "timeout"
                  /\ fpc \in {"balance", "failed"}
                  /\ fpc = "failed" =>
                       /\ perr = [stage |-> "balance", msg |-> DustTimeoutMsg]
                       /\ plog[Len(plog)].stage = "balance"
             ELSE \/ i = Len(hist) /\ wpc = "sleep" /\ fpc = "balance"
                  \/ /\ i + 1 <= Len(hist)
                     /\ hist[i + 1].ev = "sleep"
                     /\ hist[i + 1].d = DEPLOY_POLL_MS
                     /\ IF i + 1 = Len(hist)
                          THEN wpc = "sample" /\ now = hist[i].t + DEPLOY_POLL_MS
                          ELSE /\ IsAttempt(hist[i + 2])
                               /\ hist[i + 2].t = hist[i].t + DEPLOY_POLL_MS
    /\ deadline \in {0, started + DEPLOY_WAIT_DUST_MS}
    /\ NumSamples <= (DEPLOY_WAIT_DUST_MS \div DEPLOY_POLL_MS) + 2

C12_Witness ==
  /\ flow = "deploy"
  /\ fpc = "failed"
  /\ perr = [stage |-> "balance", msg |-> DustTimeoutMsg]
  /\ NumSamples = (DEPLOY_WAIT_DUST_MS \div DEPLOY_POLL_MS) + 2
  /\ \A i \in 1..Len(hist) : IsAttempt(hist[i]) => hist[i].v = "bad"

-----------------------------------------------------------------------------
\* the pipelines that balance a transaction with a wallet call of their own
Balancing == {"deploy", "helloDeploy", "contractCall"}

BalanceEntries == {i \in 1..Len(plog) : plog[i].stage = "balance"}

\* C13 as stated: in every pipeline that balances a transaction the
\* insufficient-dust failure of balancing is retried, so no such pipeline ever
\* ends with that failure as its error.
C13_DustFailureRetried ==
  flow \in Balancing => perr # ErrorOf("balance", "dust")

\* C13 (amended): only the deploy script retries the insufficient-dust failure
\* of balancing: it never ends with that failure itself, and ends with the
\* dust timeout only when an attempt failed after the deadline.  balanceTx of
\* the CLI and the hello-world deploy script balance once: the insufficient-
\* dust failure ends the pipeline at once with that failure as its error.
C13_DustRetryOnlyInDeploy ==
  /\ flow = "deploy" =>
       /\ perr # ErrorOf("balance", "dust")
       /\ perr = [stage |-> "balance", msg |-> DustTimeoutMsg] =>
            /\ hist[Len(hist)].v = "bad"
            /\ hist[Len(hist)].t > started + DEPLOY_WAIT_DUST_MS
       /\ (fpc = "failed" /\ Len(plog) > 0 /\ plog[Len(plog)].stage = "balance") =>
            LET last == hist[Len(hist)]
            IN  /\ Len(hist) > 0
                /\ IsAttempt(last)
                /\ last.v = "bad" => last.t > started + DEPLOY_WAIT_DUST_MS
                /\ last.v # "bad" => perr = ErrorOf("balance", "err")
  /\ flow \in {"helloDeploy", "contractCall"} =>
       /\ Cardinality(BalanceEntries) <= 1
       /\ \A i \in BalanceEntries :
            plog[i].result = "dust" =>
              /\ i = Len(plog)
              /\ fpc = "failed"
              /\ perr = ErrorOf("balance", "dust")

C13_Witness ==
  /\ flow = "contractCall"
  /\ fpc = "failed"
  /\ plog = <<StageEntry("balance", "dust")>>
  /\ perr.msg = DustMsg

-----------------------------------------------------------------------------
\* C14: in the deploy pipeline a failure of balance other than insufficient
\* dust, and a failure of any other stage (sign, finalize, submit), is the
\* last thing the pipeline does: no balance attempt, sleep or stage follows
\* it, and the error the script ends with is the error that was thrown.
C14_FailureAborts ==
  flow = "deploy" =>
    /\ \A i \in 1..Len(plog) :
         plog[i].result = "err" =>
           /\ i = Len(plog)
           /\ fpc = "failed"
           /\ perr = ErrorOf(plog[i].stage, "err")
           /\ plog[i].stage = "balance" =>
                /\ Len(hist) > 0
                /\ hist[Len(hist)] = [ev |-> "sample", t |-> now, v |-> "err", d |-> 0]
    /\ \A i \in 1..Len(hist) :
         (IsAttempt(hist[i]) /\ hist[i].v = "err") =>
           /\ i = Len(hist)
           /\ wpc = "done" /\ wres = "error"
           /\ fpc \in {"balance", "failed"}
           /\ ~ \E j \in 1..Len(plog) : plog[j].stage \in {"sign", "prove", "submit"}

C14_Witness ==
  /\ flow = "deploy"
  /\ fpc = "failed"
  /\ NumSamples > 1
  /\ Len(plog) = 4
  /\ plog[4] = StageEntry("prove", "err")
  /\ perr = ErrorOf("prove", "err")

-----------------------------------------------------------------------------
SubmitEntries == {i \in 1..Len(plog) : plog[i].stage = "submit"}

\* the attempts of the dust script that reached submitTransaction for coin u
SubmitsOf(u) == {i \in 1..Len(tried) : tried[i].utxo = u /\ tried[i].step = "submit"}

\* C15: a finalized transaction is submitted at most once: a pipeline (deploy,
\* hello-world deploy, transfer, contract call of a menu command) calls
\* submitTransaction at most once per run, whatever the number of balance
\* attempts and also when the status wait of the command timed out, and the
\* dust script submits at most once for each candidate coin.
C15_SubmitAtMostOnce ==
  /\ flow \in Pipelines =>
       /\ Cardinality(SubmitEntries) <= 1
       /\ \A i \in SubmitEntries : i > 1 /\ plog[i - 1] = StageEntry("prove", "ok")
  /\ flow = "dust" =>
       /\ \A u \in 1..Len(utxos) : Cardinality(SubmitsOf(u)) <= 1
       /\ \A i, j \in 1..Len(tried) : tried[i].utxo = tried[j].utxo => i = j

C15_Witness ==
  /\ flow = "contractCall"
  /\ fpc = "done"
  /\ wres = "null"
  /\ Cardinality(SubmitEntries) = 1
  /\ out = <<"Timed out waiting for state update.">>

-----------------------------------------------------------------------------
Rejected139(a) == a.threw /\ Includes139(a.msg)

TriedCoins == {tried[i].utxo : i \in 1..Len(tried)}

\* C16: the dust script attempts the available coins one at a time by
\* descending value (no coin twice, never a coin of greater value after or
\* instead of one of smaller value), and goes on to the next candidate exactly
\* when the current attempt was rejected with a message containing
\* 'Custom error: 139'.
C16_DescendingUntilAccepted ==
  flow = "dust" =>
    /\ \A i, j \in 1..Len(tried) :
         i < j => /\ tried[i].utxo # tried[j].utxo
                  /\ utxos[tried[i].utxo] >= utxos[tried[j].utxo]
    /\ \A u \in (1..Len(utxos)) \ TriedCoins :
         \A i \in 1..Len(tried) : utxos[tried[i].utxo] >= utxos[u]
    /\ \A i \in 1..Len(tried) : i < Len(tried) => Rejected139(tried[i])
    /\ fpc = "attempt" =>
         /\ Len(tried) < Len(utxos)
         /\ Len(tried) > 0 => Rejected139(tried[Len(tried)])
    /\ (Len(tried) > 0 /\ Rejected139(tried[Len(tried)]) /\ Len(tried) < Len(utxos))
         => fpc = "attempt"

C16_Witness ==
  /\ flow = "dust"
  /\ Len(tried) = 3
  /\ utxos[1] < utxos[2]
  /\ tried[1].utxo = 2
  /\ tried[3].utxo = 1
  /\ ~tried[3].threw

-----------------------------------------------------------------------------
\* the dust script has left the candidate loop and reported
DustEnded == flow = "dust" /\ fpc \in {"done", "failed"}

\* the attempts whose submitTransaction returned
Accepted == {i \in 1..Len(tried) : ~tried[i].threw}

\* C17: when the dust script has ended and the first accepted candidate is
\* the i-th of n, exactly one transaction hash was reported, exactly i
\* attempts were made (at most n, each submitting at most once) and no
\* candidate after the accepted one was attempted.
C17_OneHashAfterIAttempts ==
  DustEnded =>
    \A i \in Accepted :
      /\ out = <<"Registered: " \o tried[i].hash>>
      /\ Len(tried) = i
      /\ i <= Len(utxos)
      /\ Cardinality({j \in 1..Len(tried) : tried[j].step = "submit"}) <= i

\* C18: the dust script ends with 'No UTXO accepted for dust registration.'
\* if and only if every candidate was attempted and every attempt was rejected
\* with the ineligible-input code; when some submission returned, whatever the
\* hash, the script reports the registration and not that failure.
C18_NoneAcceptedIffAllRejected ==
  (DustEnded /\ Len(utxos) > 0) =>
    /\ perr.msg = NoneAcceptedMsg <=>
         (Len(tried) = Len(utxos) /\ \A i \in 1..Len(tried) : Rejected139(tried[i]))
    /\ Accepted # {} =>
         /\ fpc = "done"
         /\ perr = NoError
         /\ Len(out) = 1

\* the behaviour of the two claims when submitTransaction returns a hash that
\* is not the empty string
DustNonEmptyHashOnly ==
  (DustEnded /\ \A i \in Accepted : tried[i].hash # "") =>
    /\ \A i \in Accepted :
         /\ out = <<"Registered: " \o tried[i].hash>>
         /\ Len(tried) = i
    /\ Len(utxos) > 0 =>
         (perr.msg = NoneAcceptedMsg <=>
            (Len(tried) = Len(utxos) /\ \A i \in 1..Len(tried) : Rejected139(tried[i])))

-----------------------------------------------------------------------------
(* signTransactionIntents (cli.ts): for every segment of tx.intents the     *)
(* intent is cloned, one signature is made for the segment, and every input *)
(* slot of the fallible and of the guaranteed unshielded offer that holds   *)
(* no signature gets it.  The function is synchronous: one action.          *)

\* the most inputs an unshielded offer has in the model
MaxInputs == 2

\* the segment ids of the model's intent maps
Segments == {0, 1}

\* a signature some other party put into a slot before the call
CoSignature(i) == [by |-> "cosigner", of |-> i, nonce |-> 0]

\* what distinguishes two signatures signData makes of the same payload (a
\* signer may draw fresh randomness on every call)
SignNonces == {0, 1}

\* signFn(cloned.signatureData(segment))
OwnSignature(segment, nonce) == [by |-> "signFn", of |-> segment, nonce |-> nonce]

\* cloned.fallibleUnshieldedOffer / cloned.guaranteedUnshieldedOffer is undefined
NoOffer == [present |-> FALSE, inputs |-> 0, signatures |-> <<>>]

\* an offer with n inputs of which the first k slots hold a signature
Offers ==
  {NoOffer} \cup
  UNION {{[present |-> TRUE, inputs |-> n,
           signatures |-> [i \in 1..k |-> CoSignature(i)]] : k \in 0..n} :
         n \in 0..MaxInputs}

\* a value of the map that is falsy or not an object
NotAnIntent == [isIntent |-> FALSE, fallible |-> NoOffer, guaranteed |-> NoOffer]

Intents ==
  {NotAnIntent} \cup [isIntent : {TRUE}, fallible : Offers, guaranteed : Offers]

\* the maps from segment ids to intents, as sequences in key order (the ledger
\* hands out the map with its segments ascending)
IntentMaps ==
  {<<>>}
  \cup {<<[segment |-> g, intent |-> n]>> : g \in Segments, n \in Intents}
  \cup UNION {{<<[segment |-> g, intent |-> n], [segment |-> h, intent |-> m]>> :
                  h \in {k \in Segments : k > g}, n \in Intents, m \in Intents} :
                g \in Segments}

Transactions == {NoTx} \cup [hasIntents : {TRUE}, intents : IntentMaps]

\* what an index past the end of the signatures array gives: undefined
NoSignature == [by |-> "undefined", of |-> 0, nonce |-> 0]

\* signatures.at(i) of the 0-based input index i: the signature, or undefined
At(signatures, i) ==
  IF i + 1 <= Len(signatures) THEN signatures[i + 1] ELSE NoSignature

\* offer.addSignatures(list), a call into the ledger library: either the list
\* becomes the offer's signatures or it is appended to them
addSignatures(offer, list, mode) ==
  [offer EXCEPT !.signatures = IF mode = "append" THEN offer.signatures \o list
                                                  ELSE list]

\* An offer whose every input slot is given the new signature
SignOfferOverwriting(offer, signature, mode) ==
  IF ~offer.present THEN offer
  ELSE addSignatures(offer, [i \in 1..offer.inputs |-> signature], "replace")

\* if (cloned.<offer>) { signatures = inputs.map((_, i) =>
\*   offer.signatures.at(i) ?? signature); offer = offer.addSignatures(signatures) }
SignOffer(offer, signature, mode) ==
  IF ~offer.present THEN offer
  ELSE LET signatures ==
             [i \in 1..offer.inputs |->
                IF At(offer.signatures, i - 1) # NoSignature
                  THEN At(offer.signatures, i - 1)
                  ELSE signature]
       IN  addSignatures(offer, signatures, mode)

\* A loop body that signs the fallible offer only
SignIntentFallibleOnly(entry, mode, nonce) ==
  IF ~entry.intent.isIntent THEN entry
  ELSE [entry EXCEPT !.intent.fallible =
          SignOffer(entry.intent.fallible, OwnSignature(entry.segment, nonce), mode)]

\* the body of the for loop for one key of tx.intents
SignIntent(entry, mode, nonce) ==
  IF ~entry.intent.isIntent THEN entry
  ELSE LET signature == OwnSignature(entry.segment, nonce)
       IN  [entry EXCEPT
              !.intent.fallible = SignOffer(entry.intent.fallible, signature, mode),
              !.intent.guaranteed = SignOffer(entry.intent.guaranteed, signature, mode)]

\* A signer that makes one signature, for the first segment, and puts it on
\* the offers of every segment
SignedTxOneSignature(t, mode, nonce) ==
  IF ~t.hasIntents \/ Len(t.intents) = 0 THEN t
  ELSE LET signature == OwnSignature(t.intents[1].segment, nonce)
           Signed(entry) ==
             IF ~entry.intent.isIntent THEN entry
             ELSE [entry EXCEPT
                     !.intent.fallible = SignOffer(entry.intent.fallible, signature, mode),
                     !.intent.guaranteed = SignOffer(entry.intent.guaranteed, signature, mode)]
       IN  [t EXCEPT !.intents = [i \in 1..Len(t.intents) |-> Signed(t.intents[i])]]

\* the transaction after signTransactionIntents(t, signFn, proofMarker)
SignedTx(t, mode, nonce) ==
  IF ~t.hasIntents \/ Len(t.intents) = 0 THEN t
  ELSE [t EXCEPT !.intents =
          [i \in 1..Len(t.intents) |-> SignIntent(t.intents[i], mode, nonce)]]

\* the most calls of signTransactionIntents on one transaction in the model
MaxSignCalls == 2

signTransactionIntents ==
  /\ signCalls < MaxSignCalls
  /\ \E nonce \in SignNonces : tx' = SignedTx(tx, addMode, nonce)
  /\ txBefore' = tx
  /\ signCalls' = signCalls + 1
  /\ UNCHANGED addMode
  /\ UNCHANGED <<witnessVars, waitVars, flowVars, cliVars>>

NextSign == signTransactionIntents

InitSign ==
  /\ privateStore = [s \in Slots |-> emptyPrivateState]
  /\ wcall = NoCall
  /\ lastStored = [k \in Keys |-> NoRecord]
  /\ WaitIdle
  /\ FlowIdle
  /\ fund = NoFund
  /\ wallets = NoWallets
  /\ tx \in Transactions
  /\ txBefore = tx
  /\ signCalls = 0
  /\ addMode \in {"replace", "append"}
  /\ CliIdle

SpecSign == InitSign /\ [][NextSign]_vars

-----------------------------------------------------------------------------
\* the two unshielded offers of an intent
OffersOf(intent) == <<intent.fallible, intent.guaranteed>>

EntriesMatch == 
  /\ tx.hasIntents = txBefore.hasIntents
  /\ Len(tx.intents) = Len(txBefore.intents)
  /\ \A e \in 1..Len(tx.intents) :
       /\ tx.intents[e].segment = txBefore.intents[e].segment
       /\ tx.intents[e].intent.isIntent = txBefore.intents[e].intent.isIntent

\* C19: signTransactionIntents never overwrites a signature: for every
\* segment, each of its two offers and every input slot that held a signature
\* when the function was called, the slot holds the same signature when it
\* returns.
C19_SignaturesKept ==
  signCalls > 0 =>
    /\ EntriesMatch
    /\ \A e \in 1..Len(txBefore.intents) : \A o \in 1..2 :
         LET before == OffersOf(txBefore.intents[e].intent)[o]
             after == OffersOf(tx.intents[e].intent)[o]
         IN  \A i \in 1..Len(before.signatures) :
               /\ i <= Len(after.signatures)
               /\ after.signatures[i] = before.signatures[i]

C19_Witness ==
  /\ signCalls = 1
  /\ addMode = "replace"
  /\ Len(tx.intents) = 2
  /\ txBefore.intents[1].intent.isIntent
  /\ txBefore.intents[1].intent.fallible.inputs = 2
  /\ txBefore.intents[1].intent.fallible.signatures = <<CoSignature(1)>>
  /\ tx.intents[1].intent.fallible.signatures =
       <<CoSignature(1), OwnSignature(tx.intents[1].segment, 1)>>

-----------------------------------------------------------------------------
\* every input of the offer has a signature in its slot
FullySigned(offer) ==
  \A i \in 1..offer.inputs :
    /\ i <= Len(offer.signatures)
    /\ offer.signatures[i] # NoSignature

\* C20: after signTransactionIntents has returned, for every segment of the
\* transaction's intent map every input of the fallible offer and of the
\* guaranteed offer has a signature in its slot.
C20_AllSlotsSigned ==
  signCalls > 0 =>
    \A e \in 1..Len(tx.intents) : \A o \in 1..2 :
      FullySigned(OffersOf(tx.intents[e].intent)[o])

C20_Witness ==
  /\ signCalls = 1
  /\ Len(tx.intents) = 2
  /\ \A e \in 1..2 :
       /\ txBefore.intents[e].intent.isIntent
       /\ txBefore.intents[e].intent.fallible.inputs = 2
       /\ txBefore.intents[e].intent.guaranteed.inputs = 1
       /\ txBefore.intents[e].intent.fallible.signatures = <<>>
       /\ txBefore.intents[e].intent.guaranteed.signatures = <<>>
       /\ FullySigned(tx.intents[e].intent.fallible)
       /\ FullySigned(tx.intents[e].intent.guaranteed)

-----------------------------------------------------------------------------
\* one pass of the loop body for the e-th key: tx.intents.set(segment, cloned)
SignSegmentAt(t, e, mode, nonce) ==
  [t EXCEPT !.intents[e] = SignIntent(t.intents[e], mode, nonce)]

RECURSIVE SignInOrder(_, _, _, _)
\* the loop body run for the keys in the given order
SignInOrder(t, order, mode, nonce) ==
  IF order = <<>> THEN t
  ELSE SignInOrder(SignSegmentAt(t, Head(order), mode, nonce), Tail(order), mode, nonce)

\* every order in which n keys can be processed
Orders(n) == {p \in [1..n -> 1..n] : \A i, j \in 1..n : p[i] = p[j] => i = j}

\* a transaction whose intent map holds the one entry
Alone(entry) == [hasIntents |-> TRUE, intents |-> <<entry>>]

\* C22: signTransactionIntents processes the segments independently: with a
\* signing function that answers the same for the same payload, what a
\* segment holds after the call is what signing that segment alone gives,
\* processing one segment leaves every other segment as it was, and the loop
\* body run over the segments in any order gives the transaction the call gave.
C22_SegmentsIndependent ==
  signCalls > 0 =>
    \E nonce \in SignNonces :
      /\ tx = SignedTx(txBefore, addMode, nonce)
      /\ \A e \in 1..Len(txBefore.intents) :
           /\ tx.intents[e] = SignedTx(Alone(txBefore.intents[e]), addMode, nonce).intents[1]
           /\ \A f \in 1..Len(txBefore.intents) :
                f # e => SignSegmentAt(txBefore, e, addMode, nonce).intents[f]
                           = txBefore.intents[f]
      /\ \A order \in Orders(Len(txBefore.intents)) :
           SignInOrder(txBefore, order, addMode, nonce) = tx

C22_Witness ==
  /\ signCalls = 1
  /\ Len(tx.intents) = 2
  /\ \A e \in 1..2 :
       /\ txBefore.intents[e].intent.isIntent
       /\ txBefore.intents[e].intent.fallible.inputs = 1
       /\ txBefore.intents[e].intent.fallible.signatures = <<>>
       /\ Len(tx.intents[e].intent.fallible.signatures) = 1
  /\ tx.intents[1].intent.fallible.signatures # tx.intents[2].intent.fallible.signatures

-----------------------------------------------------------------------------
\* every offer of every segment of the transaction is fully signed
TxFullySigned(t) ==
  \A e \in 1..Len(t.intents) : \A o \in 1..2 : FullySigned(OffersOf(t.intents[e].intent)[o])

\* a second call on a fully signed transaction returns it identical
SecondCallIdentical ==
  (signCalls >= 2 /\ TxFullySigned(txBefore)) => tx = txBefore

\* a second call on a fully signed transaction leaves every input slot with the
\* signature it held, whatever signature the signing function made this time
SecondCallKeepsSlots ==
  (signCalls >= 2 /\ TxFullySigned(txBefore)) =>
    /\ EntriesMatch
    /\ \A e \in 1..Len(tx.intents) : \A o \in 1..2 :
         LET before == OffersOf(txBefore.intents[e].intent)[o]
             after == OffersOf(tx.intents[e].intent)[o]
         IN  /\ after.present = before.present
             /\ after.inputs = before.inputs
             /\ \A i \in 1..before.inputs : after.signatures[i] = before.signatures[i]
             /\ addMode = "replace" => after = before

-----------------------------------------------------------------------------
DeployFlows == {"deploy", "helloDeploy", "dappDeploy"}

\* deployment.json has been written
RecordWritten == \E i \in 1..Len(out) : out[i] = "deployment.json"

\* the call that submits the deploy transaction has returned
Submitted ==
  \E i \in 1..Len(plog) :
    /\ plog[i].result = "ok"
    /\ plog[i].stage = IF flow = "dappDeploy" THEN "deployContract" ELSE "submit"

\* C29 as stated: every deploy flow writes deployment.json only after the
\* submission has returned, the record holds contractAddress, txHash and
\* deployedAt, and a run that failed at or before submission wrote no record.
C29_RecordWithTxHash ==
  (flow \in DeployFlows /\ RecordWritten) =>
    /\ Submitted
    /\ RecordFields(flow) = {"contractAddress", "txHash", "deployedAt"}

\* C29 (amended): every deploy flow writes deployment.json only after the
\* call that submits the deploy transaction has returned, and never in a run
\* that failed at or before it; the deploy script and the hello-world deploy
\* script write contractAddress, deployedAt and txHash, the dapp's deploy
\* writes contractAddress and deployedAt only.
C29_RecordAfterSubmit ==
  flow \in DeployFlows =>
    /\ RecordWritten =>
         /\ Submitted
         /\ fpc = "done"
         /\ perr = NoError
         /\ out = <<"deployment.json">>
         /\ plog[Len(plog)] = StageEntry("record", "ok")
         /\ {"contractAddress", "deployedAt"} \subseteq RecordFields(flow)
         /\ ("txHash" \in RecordFields(flow)) <=> (flow # "dappDeploy")
    /\ (fpc = "failed" /\ ~Submitted) => ~RecordWritten
    /\ \A i \in 1..Len(plog) : plog[i].stage = "record" => Submitted

C29_Witness ==
  /\ flow = "dappDeploy"
  /\ fpc = "done"
  /\ RecordWritten
  /\ "txHash" \notin RecordFields(flow)

-----------------------------------------------------------------------------
(* readClientStatus and waitForStatus of src/cli.ts over the contract's     *)
(* ledger view.  A read is one queryContractState followed, if a state came *)
(* back, by the decoding and the member / lookup calls on the mappings.     *)

\* the client keys the status reads are made for
StatusKeys == {KeyBytes(1), KeyBytes(2)}
\* values of the drinksSold counter
Counts == {0, 1}

PartialMaps(D, V) == UNION {[S -> V] : S \in SUBSET D}

\* every answer of the indexer: no state, or a ledger with any content
ContractStates ==
  {NoContractState} \cup
  {Ledger(c, p, d) : c \in SUBSET StatusKeys,
                     p \in PartialMaps(StatusKeys, BOOLEAN),
                     d \in PartialMaps(StatusKeys, Counts)}

\* how queryContractState ends: it rejects, or resolves to what the indexer holds
QueryAnswers(state) ==
  {[threw |-> TRUE, state |-> NoContractState], [threw |-> FALSE, state |-> state]}

\* one call made by a read
Op(name, mapping) == [op |-> name, map |-> mapping]

\* mapping.lookup(key) of the ledger view: fails for a key that is not a member
MapLookup(mapping, key) ==
  IF key \in DOMAIN mapping THEN [threw |-> FALSE, value |-> mapping[key]]
                            ELSE [threw |-> TRUE, value |-> FALSE]

Unregistered == [registered |-> FALSE, adultVerified |-> FALSE, drinksSold |-> 0]

ReadResult(ops, threw, status) == [ops |-> ops, threw |-> threw, status |-> status]

Queried == <<Op("query", "contract")>>
Decoded == Queried \o <<Op("deserialize", "contract"), Op("ledger", "contract")>>

\* A decoding that takes each field from its own mapping, registered or not
DecodeStatusFieldwise(calls, state, clientKey) ==
  LET inPermit == clientKey \in DOMAIN state.adultPermit
      inCounter == clientKey \in DOMAIN state.drinksSold
  IN  ReadResult(
        calls \o <<Op("member", "ageCommitment"), Op("member", "adultPermit")>>
          \o (IF inPermit THEN <<Op("lookup", "adultPermit")>> ELSE <<>>)
          \o <<Op("member", "drinksSold")>>
          \o (IF inCounter THEN <<Op("lookup", "drinksSold")>> ELSE <<>>),
        FALSE,
        [registered |-> clientKey \in state.ageCommitment,
         adultVerified |-> inPermit /\ MapLookup(state.adultPermit, clientKey).value,
         drinksSold |-> IF inCounter THEN MapLookup(state.drinksSold, clientKey).value
                                     ELSE 0])

\* A decoding that looks the permit up without testing membership
DecodeStatusLookupOnly(calls, state, clientKey) ==
  LET permit == MapLookup(state.adultPermit, clientKey)
      inCounter == clientKey \in DOMAIN state.drinksSold
  IN  IF clientKey \notin state.ageCommitment
        THEN ReadResult(calls \o <<Op("member", "ageCommitment")>>, FALSE, Unregistered)
        ELSE IF permit.threw
          THEN ReadResult(calls \o <<Op("member", "ageCommitment"),
                                     Op("lookup", "adultPermit")>>, TRUE, NoStatus)
          ELSE ReadResult(
                 calls \o <<Op("member", "ageCommitment"), Op("lookup", "adultPermit"),
                            Op("member", "drinksSold")>>
                   \o (IF inCounter THEN <<Op("lookup", "drinksSold")>> ELSE <<>>),
                 FALSE,
                 [registered |-> TRUE,
                  adultVerified |-> permit.value,
                  drinksSold |-> IF inCounter
                                   THEN MapLookup(state.drinksSold, clientKey).value
                                   ELSE 0])

\* readClientStatus once a state came back: the ledger view and its mappings.
\* && and ?: evaluate lookup only after member answered true.
DecodeStatus(calls, state, clientKey) ==
  LET inPermit == clientKey \in DOMAIN state.adultPermit
      inCounter == clientKey \in DOMAIN state.drinksSold
  IN  IF clientKey \notin state.ageCommitment
        THEN ReadResult(calls \o <<Op("member", "ageCommitment")>>, FALSE, Unregistered)
        ELSE ReadResult(
               calls \o <<Op("member", "ageCommitment"), Op("member", "adultPermit")>>
                 \o (IF inPermit THEN <<Op("lookup", "adultPermit")>> ELSE <<>>)
                 \o <<Op("member", "drinksSold")>>
                 \o (IF inCounter THEN <<Op("lookup", "drinksSold")>> ELSE <<>>),
               FALSE,
               [registered |-> TRUE,
                adultVerified |-> inPermit /\ MapLookup(state.adultPermit, clientKey).value,
                drinksSold |-> IF inCounter
                                 THEN MapLookup(state.drinksSold, clientKey).value
                                 ELSE 0])

\* A read that decodes the ledger view before it tests the state
readClientStatusDecodeFirst(answer, clientKey) ==
  IF answer.threw
    THEN ReadResult(Queried, TRUE, NoStatus)
    ELSE DecodeStatus(Decoded, answer.state, clientKey)

\* A read that asks the indexer a second time
readClientStatusRetrying(answer, clientKey) ==
  IF answer.threw
    THEN ReadResult(Queried \o Queried, TRUE, NoStatus)
    ELSE IF ~answer.state.present
      THEN ReadResult(Queried \o Queried, FALSE, Unregistered)
      ELSE DecodeStatus(Queried \o Decoded, answer.state, clientKey)

\* readClientStatus(providers, contractModule, contractAddress, clientKey)
readClientStatus(answer, clientKey) ==
  IF answer.threw
    THEN ReadResult(Queried, TRUE, NoStatus)
    ELSE IF ~answer.state.present
      THEN ReadResult(Queried, FALSE, Unregistered)
      ELSE DecodeStatus(Decoded, answer.state, clientKey)

\* the number of queryContractState calls among the calls of a read
QueriesIn(ops) == Cardinality({i \in 1..Len(ops) : ops[i].op = "query"})

\* the bookkeeping of one read made for clientKey
Read(by, clientKey, answer) ==
  LET r == readClientStatus(answer, clientKey)
  IN  /\ rd' = [by |-> by, key |-> clientKey, state |-> answer.state, ops |-> r.ops,
                threw |-> r.threw, status |-> r.status]
      /\ queries' = queries + QueriesIn(r.ops)

\* the predicates the menu commands wait for
Predicates == {"registered", "adultVerified", "moreDrinks"}

\* predicate(status) of waitForStatus
Holds(predicate, before, status) ==
  CASE predicate = "registered" -> status.registered
    [] predicate = "adultVerified" -> status.adultVerified
    [] predicate = "moreDrinks" -> status.drinksSold > before.drinksSold
    [] OTHER -> FALSE

\* the polls one waitForStatus may make in the model (the code's clock cuts
\* them off after WAIT_FOR_STATE_UPDATE_MS)
MaxPolls == 2

\* one iteration of the while loop of waitForStatus: the sleep, the read and
\* the test of the predicate
waitForStatusPoll ==
  /\ cmd.stage = "wait"
  /\ cmd.polls < MaxPolls
  /\ \E answer \in QueryAnswers(indexed) :
       LET r == readClientStatus(answer, cmd.key)
       IN  /\ Read("waitForStatus", cmd.key, answer)
           /\ cmd' = IF r.threw
                       THEN [cmd EXCEPT !.stage = "threw", !.polls = @ + 1]
                       ELSE IF Holds(cmd.predicate, cmd.before, r.status)
                         THEN [cmd EXCEPT !.stage = "returned", !.polls = @ + 1]
                         ELSE [cmd EXCEPT !.polls = @ + 1]
  /\ UNCHANGED <<chain, indexed, session>>
  /\ UNCHANGED <<witnessVars, waitVars, flowVars, signVars>>

\* Date.now() has reached the deadline when the loop condition is tested:
\* waitForStatus returns null
waitForStatusTimeout ==
  /\ cmd.stage = "wait"
  /\ cmd.polls > 0
  /\ cmd' = [cmd EXCEPT !.stage = "null"]
  /\ UNCHANGED <<chain, indexed, rd, queries, session>>
  /\ UNCHANGED <<witnessVars, waitVars, flowVars, signVars>>

\* a direct call of readClientStatus (the read of `before` in the sell-drink
\* command)
readClientStatusCall ==
  /\ cmd.name = "none"
  /\ rd.by = "none"
  /\ \E k \in StatusKeys, answer \in QueryAnswers(indexed) : Read("direct", k, answer)
  /\ UNCHANGED <<chain, indexed, cmd, session>>
  /\ UNCHANGED <<witnessVars, waitVars, flowVars, signVars>>

\* waitForStatus is entered: for a registration or a permit with any key, for
\* a sale with the key and the status of the read made before it
waitForStatusCall ==
  /\ cmd.name = "none"
  /\ \E k \in StatusKeys, p \in Predicates :
       /\ p = "moreDrinks" => (rd.by = "direct" /\ ~rd.threw /\ rd.key = k)
       /\ cmd' = [name |-> "waitForStatus", key |-> k, stage |-> "wait",
                  before |-> IF p = "moreDrinks" THEN rd.status ELSE NoStatus,
                  predicate |-> p, polls |-> 0, input |-> NoInput]
  /\ UNCHANGED <<chain, indexed, rd, queries, session>>
  /\ UNCHANGED <<witnessVars, waitVars, flowVars, signVars>>

\* what the indexer may hold next for a key while a command waits: the key
\* got registered, its permit got set, one more drink got counted
Advances(state, k) ==
  IF ~state.present
    THEN {EmptyLedger}
    ELSE {Ledger(state.ageCommitment \cup {k}, state.adultPermit, state.drinksSold)}
         \cup {Ledger(state.ageCommitment,
                      [j \in (DOMAIN state.adultPermit) \cup {k} |->
                         IF j = k THEN TRUE ELSE state.adultPermit[j]],
                      state.drinksSold)}
         \cup {Ledger(state.ageCommitment, state.adultPermit,
                      [j \in (DOMAIN state.drinksSold) \cup {k} |->
                         IF j = k THEN n ELSE state.drinksSold[j]]) :
               n \in {c \in Counts :
                        c = IF k \in DOMAIN state.drinksSold
                              THEN state.drinksSold[k] + 1 ELSE 0}}

\* the indexer catches up with a block while waitForStatus sleeps
IndexerAdvances ==
  /\ cmd.stage = "wait"
  /\ \E next \in Advances(indexed, cmd.key) \ {indexed} :
       /\ indexed' = next
       /\ chain' = next
  /\ UNCHANGED <<rd, queries, cmd, session>>
  /\ UNCHANGED <<witnessVars, waitVars, flowVars, signVars>>

NextStatus ==
  \/ readClientStatusCall
  \/ waitForStatusCall
  \/ waitForStatusPoll
  \/ waitForStatusTimeout
  \/ IndexerAdvances

\* reads against an indexer that may hold anything for the contract address
InitStatus ==
  /\ privateStore = [s \in Slots |-> emptyPrivateState]
  /\ wcall = NoCall
  /\ lastStored = [k \in Keys |-> NoRecord]
  /\ WaitIdle
  /\ FlowIdle
  /\ fund = NoFund
  /\ wallets = NoWallets
  /\ SignIdle
  /\ indexed \in ContractStates
  /\ chain = indexed
  /\ rd = NoRead
  /\ queries = 0
  /\ cmd = NoCommand
  /\ session = "none"

SpecStatus == InitStatus /\ [][NextStatus]_vars

\* a read has been made and has returned a status
ReadReturned == rd.by # "none" /\ ~rd.threw

\* C23: a read that got no state for the contract address returns
\* {registered: false, adultVerified: false, drinksSold: 0} and has made no
\* call but the query: it decoded no state and touched no mapping.
C23_NoStateUnregistered ==
  (rd.by # "none" /\ ~rd.threw /\ ~rd.state.present) =>
    /\ rd.status = [registered |-> FALSE, adultVerified |-> FALSE, drinksSold |-> 0]
    /\ rd.ops = <<Op("query", "contract")>>

C23_Witness ==
  /\ rd.by = "waitForStatus"
  /\ ~rd.threw
  /\ ~rd.state.present
  /\ rd.status = Unregistered

\* the read got a ledger state from the indexer
ReadOfLedger == ReadReturned /\ rd.state.present

PermitOf(state, k) == k \in DOMAIN state.adultPermit /\ state.adultPermit[k]
CounterOf(state, k) == IF k \in DOMAIN state.drinksSold THEN state.drinksSold[k] ELSE 0

\* C24 as stated: for every indexed state and key each field is reported
\* from its own mapping: registered = commitment.member(k), adultVerified =
\* permit.member(k) and permit.lookup(k), counter = counter.lookup(k) if
\* counter.member(k) else 0.
C24_FieldwiseStatus ==
  ReadOfLedger =>
    /\ rd.status.registered = (rd.key \in rd.state.ageCommitment)
    /\ rd.status.adultVerified = PermitOf(rd.state, rd.key)
    /\ rd.status.drinksSold = CounterOf(rd.state, rd.key)

\* C24 (amended): registered = commitment.member(k); for a key that is a
\* member of the commitment mapping adultVerified and the counter are
\* reported from their own mappings by membership-then-lookup; for a key that
\* is not, the read reports adultVerified = false and counter = 0 whatever
\* the permit and counter mappings hold, and consults neither.
C24_RegisteredGatesFields ==
  ReadOfLedger =>
    /\ rd.status.registered = (rd.key \in rd.state.ageCommitment)
    /\ rd.status.registered =>
         /\ rd.status.adultVerified = PermitOf(rd.state, rd.key)
         /\ rd.status.drinksSold = CounterOf(rd.state, rd.key)
    /\ ~rd.status.registered =>
         /\ rd.status = Unregistered
         /\ \A i \in 1..Len(rd.ops) : rd.ops[i].map \notin {"adultPermit", "drinksSold"}

C24_Witness ==
  /\ ReadOfLedger
  /\ rd.key \notin rd.state.ageCommitment
  /\ PermitOf(rd.state, rd.key)
  /\ CounterOf(rd.state, rd.key) = 1
  /\ rd.status = Unregistered

\* C25: a read calls lookup on a mapping only for a key that mapping holds
\* (and only after member); a key absent from the permit mapping is reported
\* as not verified, a key absent from the counter as 0, and no read fails
\* unless its query failed.
C25_LookupOnlyMembers ==
  rd.by # "none" =>
    /\ \A i \in 1..Len(rd.ops) :
         rd.ops[i].op = "lookup" =>
           /\ rd.ops[i].map \in {"adultPermit", "drinksSold"}
           /\ rd.key \in DOMAIN rd.state[rd.ops[i].map]
           /\ i > 1 /\ rd.ops[i - 1] = Op("member", rd.ops[i].map)
    /\ rd.threw => rd.ops = <<Op("query", "contract")>>
    /\ (~rd.threw /\ rd.key \notin DOMAIN rd.state.adultPermit) => ~rd.status.adultVerified
    /\ (~rd.threw /\ rd.key \notin DOMAIN rd.state.drinksSold) => rd.status.drinksSold = 0

C25_Witness ==
  /\ ReadOfLedger
  /\ rd.status.registered
  /\ rd.key \notin DOMAIN rd.state.adultPermit
  /\ rd.key \in DOMAIN rd.state.drinksSold
  /\ rd.ops = Decoded \o <<Op("member", "ageCommitment"), Op("member", "adultPermit"),
                           Op("member", "drinksSold"), Op("lookup", "drinksSold")>>
  /\ rd.status = [registered |-> TRUE, adultVerified |-> FALSE,
                  drinksSold |-> rd.state.drinksSold[rd.key]]

\* the status a ledger state holds for a key
StatusOf(state, k) ==
  IF ~state.present \/ k \notin state.ageCommitment
    THEN Unregistered
    ELSE [registered |-> TRUE, adultVerified |-> PermitOf(state, k),
          drinksSold |-> CounterOf(state, k)]

\* a step in which a read was made
ReadStep == queries' # queries \/ rd' # rd \/ cmd'.polls # cmd.polls

\* C26: every read makes exactly one queryContractState call, also when that
\* call fails (no retry); what it returns is the status of the state the
\* indexer holds at that moment, whatever an earlier read returned; every
\* poll of waitForStatus is one such read.
C26_OneFreshQueryPerRead ==
  [][ReadStep =>
       /\ queries' = queries + 1
       /\ rd'.by # "none"
       /\ QueriesIn(rd'.ops) = 1
       /\ rd'.ops[1] = Op("query", "contract")
       /\ ~rd'.threw => (rd'.state = indexed /\ rd'.status = StatusOf(indexed, rd'.key))
       /\ cmd'.polls # cmd.polls =>
            (cmd'.polls = cmd.polls + 1 /\ rd'.by = "waitForStatus" /\ rd'.key = cmd.key)]_vars

\* the second poll of a wait for a sale returns the new count although the
\* read before the wait and the first poll had returned the old one
C26_Witness ==
  /\ cmd.predicate = "moreDrinks"
  /\ cmd.stage = "returned"
  /\ cmd.polls = 2
  /\ queries = 3
  /\ cmd.before.drinksSold = 0
  /\ rd.by = "waitForStatus"
  /\ rd.status.drinksSold = 1

-----------------------------------------------------------------------------
(* One CLI run: the menu loop of main (cli.ts:529-661) with the commands    *)
(* register client, prove adult, sell drink and exit.  callTx.<circuit>     *)
(* runs the circuit with the role's witnesses, then balances, proves and    *)
(* submits the transaction; the circuits themselves are the compiled        *)
(* contract, described by the scenarios of the specification.               *)

DecimalDigits == <<"0", "1", "2", "3", "4", "5", "6", "7", "8", "9">>

IsDigit(c) == \E v \in 1..10 : DecimalDigits[v] = c

DigitVal(c) == (CHOOSE v \in 1..10 : DecimalDigits[v] = c) - 1

RECURSIVE TrimStart(_)
TrimStart(string) ==
  IF Len(string) > 0 /\ string[1] = " " THEN TrimStart(Tail(string)) ELSE string

RECURSIVE TrimEnd(_)
TrimEnd(string) ==
  IF Len(string) > 0 /\ string[Len(string)] = " "
    THEN TrimEnd(SubSeq(string, 1, Len(string) - 1))
    ELSE string

\* String.prototype.trim
Trim(string) == TrimEnd(TrimStart(string))

\* the longest run of decimal digits a string starts with
RECURSIVE DigitPrefix(_)
DigitPrefix(string) ==
  IF Len(string) > 0 /\ IsDigit(string[1])
    THEN <<string[1]>> \o DigitPrefix(Tail(string))
    ELSE <<>>

RECURSIVE DecimalValue(_)
DecimalValue(digits) ==
  IF digits = <<>>
    THEN 0
    ELSE 10 * DecimalValue(SubSeq(digits, 1, Len(digits) - 1)) + DigitVal(digits[Len(digits)])

\* a JavaScript number: NaN, or a finite integer
NaN == [finite |-> FALSE, value |-> 0]
Num(v) == [finite |-> TRUE, value |-> v]

\* Number.parseInt(string, 10): skips leading white space, takes a sign,
\* reads decimal digits up to the first other character; NaN without a digit
parseInt(string) ==
  LET s == TrimStart(string)
      signed == Len(s) > 0 /\ s[1] \in {"-", "+"}
      digits == DigitPrefix(IF signed THEN Tail(s) ELSE s)
  IN  IF digits = <<>>
        THEN NaN
        ELSE Num(IF s[1] = "-" THEN 0 - DecimalValue(digits) ELSE DecimalValue(digits))

\* An age test without the upper limit
AgeAcceptedNoLimit(ageNumber) == ageNumber.finite /\ ageNumber.value >= 0

\* !(!Number.isFinite(ageNumber) || ageNumber < 0 || ageNumber > 255)
AgeAccepted(ageNumber) ==
  ageNumber.finite /\ ~(ageNumber.value < 0) /\ ~(ageNumber.value > 255)

\* clientKeyFromNickname: the sha256 of a tag and the nickname, one key per
\* nickname
clientKeyFromNickname(nickname) ==
  IF nickname = <<"a">> THEN KeyBytes(1) ELSE KeyBytes(2)

\* what is typed at the prompts in a session
CliNicknames == {<<"a">>, <<"b">>}
CliAgeInputs == {<<"1", "7">>, <<"2", "2">>}

\* the ages the prompt lets through in a session
CliAges == {17, 22}
\* the value randomBytes(32) returns in a run
CliSalts == {SaltBytes(1)}
\* the age the prove-adult circuit asks for
ADULT_AGE == 18

CircuitResult(failed, ledger, witness) ==
  [failed |-> failed, ledger |-> ledger, witness |-> witness]

\* circuit registerClient(clientKey, age, salt): hands the record to the
\* storeAge witness and commits the key
registerClient(ledger, ctx, clientKey, age, salt) ==
  LET w == Invoke("client", "storeAge", ctx, clientKey, age, salt)
  IN  CircuitResult(w.threw,
        IF w.threw THEN ledger
                   ELSE Ledger(ledger.ageCommitment \cup {clientKey},
                               ledger.adultPermit, ledger.drinksSold),
        w)

\* circuit proveAdult(clientKey): loads the record through the loadAge
\* witness and sets the permit of a committed key whose age is 18 or more
proveAdult(ledger, ctx, clientKey) ==
  LET w == Invoke("client", "loadAge", ctx, clientKey, -1, <<>>)
      granted == /\ ~w.threw
                 /\ clientKey \in ledger.ageCommitment
                 /\ w.values[1] >= ADULT_AGE
  IN  CircuitResult(~granted,
        IF granted
          THEN Ledger(ledger.ageCommitment,
                      [j \in (DOMAIN ledger.adultPermit) \cup {clientKey} |->
                         IF j = clientKey THEN TRUE ELSE ledger.adultPermit[j]],
                      ledger.drinksSold)
          ELSE ledger,
        w)

\* circuit sellDrink(clientKey): counts a drink for a key that has the permit
sellDrink(ledger, clientKey) ==
  LET granted == PermitOf(ledger, clientKey)
  IN  CircuitResult(~granted,
        IF granted
          THEN Ledger(ledger.ageCommitment, ledger.adultPermit,
                      [j \in (DOMAIN ledger.drinksSold) \cup {clientKey} |->
                         IF j = clientKey THEN CounterOf(ledger, clientKey) + 1
                                          ELSE ledger.drinksSold[j]])
          ELSE ledger,
        NoCall.result)

\* how the rest of callTx ends once the circuit has run: the transaction is
\* balanced, proved and submitted ("ok") or one of these steps throws ("err")
CallOutcomes == {"ok", "err"}

Command(name, clientKey, stage, before, predicate) ==
  [name |-> name, key |-> clientKey, stage |-> stage, before |-> before,
   predicate |-> predicate, polls |-> 0, input |-> NoInput]

\* the private state and the witness history after a callTx of the client
KeepPrivateState(c, kept, clientKey, age, salt) ==
  LET slot == PrivateSlot("client")
      op == IF age >= 0 THEN "storeAge" ELSE "loadAge"
  IN  /\ privateStore' = IF kept /\ ~c.witness.threw
                           THEN [privateStore EXCEPT ![slot] = c.witness.state]
                           ELSE privateStore
      /\ wcall' = [role |-> "client", op |-> op, key |-> clientKey, age |-> age,
                   salt |-> salt, input |-> privateStore[slot], result |-> c.witness]
      /\ lastStored' = IF kept /\ op = "storeAge" /\ ~c.witness.threw
                         THEN [lastStored EXCEPT ![clientKey] = [age |-> age, salt |-> salt]]
                         ELSE lastStored

\* a command's try block threw: its catch prints the cause and the loop goes on
Caught(name, clientKey, line) ==
  /\ cmd' = Command(name, clientKey, "failed", NoStatus, "none")
  /\ out' = <<line>>
  /\ session' = "menu"

\* case '1' stopped at a prompt: the message is printed, then break
Rejected(typed, line) ==
  /\ cmd' = [Command("register", <<>>, "rejected", NoStatus, "none") EXCEPT !.input = typed]
  /\ out' = <<line>>
  /\ session' = "menu"
  /\ UNCHANGED <<witnessVars, chain>>

\* what case '1' makes of the texts typed at its two prompts
Prompts(nicknames, ageInputs) ==
  {[typed |-> [nickname |-> typedName, age |-> typedAge],
    nickname |-> Trim(typedName),
    ageNumber |-> parseInt(Trim(typedAge))] :
     typedName \in nicknames, typedAge \in ageInputs}

CliPrompts == Prompts(CliNicknames, CliAgeInputs)

\* case '1' from the prompts up to the return of callTx.registerClient
RegisterPrompt(prompts) ==
  /\ session = "menu"
  /\ \E prompt \in prompts :
       LET nickname == prompt.nickname
           ageNumber == prompt.ageNumber
           typed == prompt.typed
       IN  IF Len(nickname) = 0
             THEN Rejected([typed EXCEPT !.age = <<>>], "Nickname cannot be empty.")
             ELSE IF ~AgeAccepted(ageNumber)
               THEN Rejected(typed, "Age must be an integer in range 0..255.")
               ELSE \E salt \in CliSalts, o \in CallOutcomes :
                      LET k == clientKeyFromNickname(nickname)
                          age == ageNumber.value
                          c == registerClient(chain, ClientState, k, age, salt)
                          done == ~c.failed /\ o = "ok"
                      IN  /\ KeepPrivateState(c, done, k, age, salt)
                          /\ chain' = IF done THEN c.ledger ELSE chain
                          /\ cmd' = [Command("register", k, IF done THEN "wait" ELSE "failed",
                                             NoStatus, IF done THEN "registered" ELSE "none")
                                       EXCEPT !.input = typed]
                          /\ out' = IF done THEN <<"Submitted transaction:">>
                                            ELSE <<"Failed to register client:">>
                          /\ session' = IF done THEN "command" ELSE "menu"
  /\ queries' = 0
  /\ rd' = NoRead
  /\ indexed' = indexed
  /\ UNCHANGED <<flow, fpc, plog, perr, fund, utxos, tried, txHash, balance, ttl, wallets>>
  /\ UNCHANGED <<waitVars, signVars>>

registerClientCall == RegisterPrompt(CliPrompts)

\* case '2' up to the return of callTx.proveAdult
proveAdultCall ==
  /\ session = "menu"
  /\ \E k \in StatusKeys, o \in CallOutcomes :
       LET c == proveAdult(chain, ClientState, k)
           done == ~c.failed /\ o = "ok"
       IN  /\ KeepPrivateState(c, done, k, -1, <<>>)
           /\ chain' = IF done THEN c.ledger ELSE chain
           /\ IF done
                THEN /\ cmd' = Command("proveAdult", k, "wait", NoStatus, "adultVerified")
                     /\ out' = <<"Submitted transaction:">>
                     /\ session' = "command"
                ELSE Caught("proveAdult", k, "Failed to prove adult:")
  /\ queries' = 0
  /\ rd' = NoRead
  /\ indexed' = indexed
  /\ UNCHANGED <<flow, fpc, plog, perr, fund, utxos, tried, txHash, balance, ttl, wallets>>
  /\ UNCHANGED <<waitVars, signVars>>

\* case '3' up to the return of readClientStatus: the read of `before` stands
\* before the try, so its failure leaves the switch and the while loop and
\* reaches the catch of main, which prints 'Error:'; finally stops the wallets
sellDrinkRead ==
  /\ session = "menu"
  /\ \E k \in StatusKeys, answer \in QueryAnswers(indexed) :
       LET r == readClientStatus(answer, k)
       IN  /\ rd' = [by |-> "direct", key |-> k, state |-> answer.state, ops |-> r.ops,
                     threw |-> r.threw, status |-> r.status]
           /\ queries' = QueriesIn(r.ops)
           /\ IF r.threw
                THEN /\ cmd' = Command("sellDrink", k, "failed", NoStatus, "none")
                     /\ out' = <<"Error:">>
                     /\ session' = "ended"
                     /\ wallets' = Stopped(wallets, {"client", "bartender"})
                ELSE /\ cmd' = Command("sellDrink", k, "call", r.status, "moreDrinks")
                     /\ out' = <<>>
                     /\ session' = "command"
                     /\ wallets' = wallets
  /\ UNCHANGED <<chain, indexed>>
  /\ UNCHANGED <<flow, fpc, plog, perr, fund, utxos, tried, txHash, balance, ttl>>
  /\ UNCHANGED <<witnessVars, waitVars, signVars>>

\* case '3': callTx.sellDrink of the bartender's contract
sellDrinkCall ==
  /\ session = "command"
  /\ cmd.name = "sellDrink"
  /\ cmd.stage = "call"
  /\ \E o \in CallOutcomes :
       LET c == sellDrink(chain, cmd.key)
           done == ~c.failed /\ o = "ok"
       IN  /\ done => CounterOf(chain, cmd.key) + 1 \in Counts
           /\ chain' = IF done THEN c.ledger ELSE chain
           /\ IF done
                THEN /\ cmd' = [cmd EXCEPT !.stage = "wait"]
                     /\ out' = <<"Submitted transaction:">>
                     /\ session' = session
                ELSE /\ cmd' = [cmd EXCEPT !.stage = "failed"]
                     /\ out' = <<"SALE_REJECTED">>
                     /\ session' = "menu"
  /\ UNCHANGED <<indexed, rd, queries>>
  /\ UNCHANGED <<flow, fpc, plog, perr, fund, utxos, tried, txHash, balance, ttl, wallets>>
  /\ UNCHANGED <<witnessVars, waitVars, signVars>>

\* what a command prints when waitForStatus returned a status
ReportOf(name) ==
  CASE name = "register" -> "Registered:"
    [] name = "proveAdult" -> "Adult proof accepted."
    [] OTHER -> "SALE_APPROVED"

\* what a command prints when waitForStatus returned null
TimeoutReportOf(name) ==
  CASE name = "register" -> "Timed out waiting for state update."
    [] name = "proveAdult" -> "Timed out waiting for permit update."
    [] OTHER -> "Sale submitted but no updated state was observed in time."

\* what the catch of a command prints
CatchReportOf(name) ==
  CASE name = "register" -> "Failed to register client:"
    [] name = "proveAdult" -> "Failed to prove adult:"
    [] OTHER -> "SALE_REJECTED"

\* the command goes on after its waitForStatus: it prints the outcome, or its
\* catch prints the failure of a status read; then break, back to the menu
commandReports ==
  /\ session = "command"
  /\ cmd.stage \in {"returned", "null", "threw"}
  /\ cmd' = [cmd EXCEPT !.stage = IF cmd.stage = "threw" THEN "failed" ELSE "done"]
  /\ out' = CASE cmd.stage = "returned" -> <<ReportOf(cmd.name)>>
              [] cmd.stage = "null" -> <<TimeoutReportOf(cmd.name)>>
              [] OTHER -> <<CatchReportOf(cmd.name)>>
  /\ session' = "menu"
  /\ UNCHANGED <<chain, indexed, rd, queries>>
  /\ UNCHANGED <<flow, fpc, plog, perr, fund, utxos, tried, txHash, balance, ttl, wallets>>
  /\ UNCHANGED <<witnessVars, waitVars, signVars>>

\* case '4'
exitCall ==
  /\ session = "menu"
  /\ cmd' = Command("exit", <<>>, "done", NoStatus, "none")
  /\ out' = <<"Goodbye!">>
  /\ session' = "ended"
  /\ wallets' = Stopped(wallets, {"client", "bartender"})
  /\ UNCHANGED <<chain, indexed, rd, queries>>
  /\ UNCHANGED <<flow, fpc, plog, perr, fund, utxos, tried, txHash, balance, ttl>>
  /\ UNCHANGED <<witnessVars, waitVars, signVars>>

\* the indexer has processed the blocks up to the latest transaction
IndexerCatchesUp ==
  /\ session \in {"menu", "command"}
  /\ indexed # chain
  /\ indexed' = chain
  /\ UNCHANGED <<chain, rd, queries, cmd, session>>
  /\ UNCHANGED <<witnessVars, waitVars, flowVars, signVars>>

NextCli ==
  \/ registerClientCall
  \/ proveAdultCall
  \/ sellDrinkRead
  \/ sellDrinkCall
  \/ waitForStatusPoll
  \/ waitForStatusTimeout
  \/ commandReports
  \/ exitCall
  \/ IndexerCatchesUp

\* the menu is shown for the first time: both contracts were found with
\* emptyPrivateState() and the indexer holds the deployed contract
InitCli ==
  /\ privateStore = [s \in Slots |-> emptyPrivateState]
  /\ wcall = NoCall
  /\ lastStored = [k \in Keys |-> NoRecord]
  /\ WaitIdle
  /\ FlowIdle
  /\ fund = NoFund
  /\ wallets = Started(NoWallets, {"client", "bartender"})
  /\ SignIdle
  /\ chain = EmptyLedger
  /\ indexed = EmptyLedger
  /\ rd = NoRead
  /\ queries = 0
  /\ cmd = NoCommand
  /\ session = "menu"

SpecCli == InitCli /\ [][NextCli]_vars

\* the age of the record the client's private state holds for a key, -1 if none
StoredAge(k) ==
  LET record == HeldBy(ClientState, keyHex(k))
  IN  IF record = <<>> THEN -1 ELSE record[1].age

\* a step that is the call of prove adult for k, up to the return of callTx
ProveAdultStep(k) ==
  /\ session = "menu"
  /\ indexed' = indexed
  /\ cmd'.name = "proveAdult"
  /\ cmd'.key = k
  /\ cmd'.stage \in {"wait", "failed"}

\* a step that is the call of register client for k, up to the return of callTx
RegisterStep(k) ==
  /\ session = "menu"
  /\ indexed' = indexed
  /\ cmd'.name = "register"
  /\ cmd'.key = k
  /\ cmd'.stage \in {"wait", "failed"}

\* the permit mapping gets an entry for k
PermitSet(k) == k \in DOMAIN chain'.adultPermit /\ k \notin DOMAIN chain.adultPermit

\* C27: a prove-adult call for a key whose stored record has an age below 18
\* (17 in the scenario) fails: the command reports 'Failed to prove adult:',
\* returns to the menu and leaves the ledger as it was; and the permit of a
\* key is set only in a step in which the stored age of that key is 18 or
\* more, so it stays absent for as long as the stored age is below 18.
C27_NoPermitUnderAge ==
  [][\A k \in StatusKeys :
       /\ (ProveAdultStep(k) /\ StoredAge(k) < ADULT_AGE) =>
            /\ cmd'.stage = "failed"
            /\ out' = <<"Failed to prove adult:">>
            /\ session' = "menu"
            /\ chain' = chain
       /\ PermitSet(k) => (StoredAge(k) >= ADULT_AGE /\ ProveAdultStep(k))]_vars

C27_Witness ==
  /\ cmd.name = "proveAdult"
  /\ cmd.stage = "failed"
  /\ session = "menu"
  /\ StoredAge(cmd.key) = 17
  /\ cmd.key \in chain.ageCommitment
  /\ cmd.key \notin DOMAIN chain.adultPermit
  /\ wcall.op = "loadAge"
  /\ ~wcall.result.threw
  /\ wcall.result.values[1] = 17

\* C28: a registration that succeeds for K with age 22 adds K to the
\* commitment mapping and leaves the permit mapping as it was (without an
\* entry for a K that had none); the permit mapping changes only in a
\* prove-adult call for K that succeeds, a call that loads the stored record
\* of K (age 22), and from then on the permit lookup for K is true.
C28_PermitOnlyByProveAdult ==
  [][\A k \in StatusKeys :
       /\ (RegisterStep(k) /\ cmd'.stage = "wait") =>
            /\ k \in chain'.ageCommitment
            /\ chain'.adultPermit = chain.adultPermit
            /\ StoredAge(k)' \in CliAges
       /\ (ProveAdultStep(k) /\ lastStored[k].age = 22) =>
            /\ StoredAge(k) = 22
            /\ ~wcall'.result.threw
            /\ wcall'.result.values[1] = 22
            /\ (cmd'.stage = "wait" /\ k \in chain.ageCommitment) => PermitOf(chain', k)
       /\ PermitSet(k) => (ProveAdultStep(k) /\ cmd'.stage = "wait")
       /\ k \in DOMAIN chain.adultPermit =>
            (k \in DOMAIN chain'.adultPermit /\ chain'.adultPermit[k] = TRUE)]_vars

C28_Witness ==
  /\ cmd.name = "proveAdult"
  /\ cmd.stage = "returned"
  /\ StoredAge(cmd.key) = 22
  /\ cmd.key \in chain.ageCommitment
  /\ PermitOf(chain, cmd.key)
  /\ rd.by = "waitForStatus"
  /\ rd.status.adultVerified

\* C30 as stated: a failure inside a menu command, a failing status read
\* included, ends that command only: its cause was printed and the session
\* is back at the menu, where every command can be chosen again.
C30_FailureReturnsToMenu ==
  cmd.stage = "failed" =>
    /\ session = "menu"
    /\ out = <<CatchReportOf(cmd.name)>>

\* every failure but that of the read made before the sale is caught by the
\* command's own catch
FailuresInsideTryCaught ==
  (cmd.stage = "failed" /\ ~(cmd.name = "sellDrink" /\ rd.by = "direct" /\ rd.threw)) =>
    /\ session = "menu"
    /\ out = <<CatchReportOf(cmd.name)>>

\* C36: in every status a read returns, registered = false comes with
\* adultVerified = false and drinksSold = 0, whatever the permit and counter
\* mappings hold for the key; so adultVerified implies registered in every
\* status the predicate of a wait is applied to.
C36_UnregisteredMeansNothingElse ==
  ReadReturned =>
    /\ ~rd.status.registered => (~rd.status.adultVerified /\ rd.status.drinksSold = 0)
    /\ rd.status.adultVerified => rd.status.registered
    /\ rd.status.registered = (rd.state.present /\ rd.key \in rd.state.ageCommitment)

\* a wait for the permit polled a ledger that holds a permit and a count for
\* a key it has no commitment for, and goes on waiting
C36_Witness ==
  /\ ReadOfLedger
  /\ rd.by = "waitForStatus"
  /\ cmd.predicate = "adultVerified"
  /\ cmd.stage = "wait"
  /\ cmd.polls = 1
  /\ rd.key \notin rd.state.ageCommitment
  /\ PermitOf(rd.state, rd.key)
  /\ CounterOf(rd.state, rd.key) = 1
  /\ ~rd.status.adultVerified
  /\ rd.status.drinksSold = 0

\* the sell-drink command has printed its outcome
SaleReported(line) == cmd.name = "sellDrink" /\ out = <<line>>

\* the last read of the command is a poll that saw more drinks than `before`
SawMoreDrinks ==
  /\ rd.by = "waitForStatus"
  /\ ~rd.threw
  /\ rd.key = cmd.key
  /\ rd.status.drinksSold > cmd.before.drinksSold

\* SALE_APPROVED is printed only after such a poll, and a wait that timed out
\* prints neither SALE_APPROVED nor SALE_REJECTED
SaleApprovedOnlyAfterIncrease ==
  /\ SaleReported("SALE_APPROVED") => (SawMoreDrinks /\ cmd.polls > 0)
  /\ SaleReported(TimeoutReportOf("sellDrink")) =>
       (cmd.polls > 0 /\ ~rd.threw /\ ~SawMoreDrinks)

\* C35 as stated: sell drink prints SALE_APPROVED only after a status read
\* taken after the submission shows a counter strictly greater than the one
\* read before it, a wait that times out prints neither SALE_APPROVED nor
\* SALE_REJECTED, and SALE_REJECTED is printed only when the contract call
\* itself failed (no transaction was submitted, no wait was made).
C35_RejectedOnlyWhenCallFails ==
  /\ SaleApprovedOnlyAfterIncrease
  /\ SaleReported("SALE_REJECTED") =>
       (cmd.polls = 0 /\ rd.by = "direct" /\ CounterOf(chain, cmd.key) = cmd.before.drinksSold)

-----------------------------------------------------------------------------
(* The prompts of the register command with any short text typed at them *)

\* the longest age text typed
MaxAgeLen == 3

AgeChars == {"0", "2", "5", "6", "-", " ", "x"}

Strings(chars, n) == UNION {[1..m -> chars] : m \in 0..n}

NicknameInputs == {<<>>, <<" ">>, <<"a">>, <<"b">>, <<" ", "a">>}
AgeInputs == Strings(AgeChars, MaxAgeLen)

AllPrompts == Prompts(NicknameInputs, AgeInputs)

\* the first command of a session is register client
registerClientTyped ==
  /\ cmd = NoCommand
  /\ RegisterPrompt(AllPrompts)

NextPrompt ==
  \/ registerClientTyped
  \/ waitForStatusPoll
  \/ waitForStatusTimeout
  \/ commandReports
  \/ IndexerCatchesUp

SpecPrompt == InitCli /\ [][NextPrompt]_vars

\* a text of spaces only (or empty)
Blank(string) == \A i \in 1..Len(string) : string[i] = " "

\* the text between the leading and the trailing spaces
Inner(string) ==
  IF Blank(string)
    THEN <<>>
    ELSE LET first == CHOOSE i \in 1..Len(string) :
                        string[i] # " " /\ \A j \in 1..(i - 1) : string[j] = " "
             last == CHOOSE i \in 1..Len(string) :
                       string[i] # " " /\ \A j \in (i + 1)..Len(string) : string[j] = " "
         IN  SubSeq(string, first, last)

\* a decimal numeral: digits, after a minus sign or not
IsNumeral(string) ==
  LET body == IF Len(string) > 0 /\ string[1] = "-" THEN Tail(string) ELSE string
  IN  Len(body) > 0 /\ \A i \in 1..Len(body) : IsDigit(body[i])

NumeralValue(string) ==
  IF string[1] = "-" THEN 0 - DecimalValue(Tail(string)) ELSE DecimalValue(string)

\* the typed age is a numeral outside 0..255, or starts with no number at all
AgeOutOfRange(string) ==
  LET text == Inner(string)
  IN  \/ text = <<>>
      \/ ~IsDigit(text[1]) /\ ~(text[1] = "-" /\ Len(text) > 1 /\ IsDigit(text[2]))
      \/ IsNumeral(text) /\ NumeralValue(text) \notin 0..255

\* the register command has touched nothing: no witness call, no
\* transaction, no status read
NothingHappened ==
  /\ wcall = NoCall
  /\ privateStore = [s \in Slots |-> emptyPrivateState]
  /\ lastStored = [k \in Keys |-> NoRecord]
  /\ chain = EmptyLedger
  /\ rd = NoRead
  /\ queries = 0
  /\ cmd.polls = 0

\* C31: the register circuit is invoked only with a nickname that is not
\* empty and an age in 0..255; a command given an empty (blank) nickname or
\* an age text that is out of range or no number ends at the prompt with its
\* message, and no witness store, transaction or status wait happens for it.
C31_RegisterInputChecked ==
  cmd.name = "register" =>
    /\ (Blank(cmd.input.nickname) \/ AgeOutOfRange(cmd.input.age)) =>
         /\ cmd.stage = "rejected"
         /\ NothingHappened
         /\ session = "menu"
         /\ out \in {<<"Nickname cannot be empty.">>,
                     <<"Age must be an integer in range 0..255.">>}
    /\ cmd.stage # "rejected" =>
         /\ ~Blank(cmd.input.nickname)
         /\ wcall.op = "storeAge"
         /\ wcall.key = clientKeyFromNickname(Inner(cmd.input.nickname))
         /\ wcall.age \in 0..255
         /\ IsNumeral(Inner(cmd.input.age)) => wcall.age = NumeralValue(Inner(cmd.input.age))

C31_Witness ==
  /\ cmd.name = "register"
  /\ cmd.stage = "rejected"
  /\ cmd.input = [nickname |-> <<" ", "a">>, age |-> <<"2", "5", "6">>]
  /\ out = <<"Age must be an integer in range 0..255.">>
  /\ NothingHappened

-----------------------------------------------------------------------------
SignEntries == {i \in 1..Len(plog) : plog[i].stage = "sign"}

\* the balance attempts of the retry loop that returned a recipe
BalancedAttempts == {i \in 1..Len(hist) : IsAttempt(hist[i]) /\ hist[i].v = "ok"}

\* C33: a run of the deploy script calls signUnprovenTransaction at most
\* once, and only after the retry loop has left with the recipe of its one
\* successful balance attempt, which is the last attempt however many failed
\* before it; a run in which no attempt succeeded signs nothing.
C33_SignOncePerRun ==
  flow = "deploy" =>
    /\ Cardinality(SignEntries) <= 1
    /\ Cardinality(BalancedAttempts) <= 1
    /\ \A i \in SignEntries :
         /\ i > 1
         /\ plog[i - 1] = StageEntry("balance", "ok")
         /\ wpc = "done" /\ wres = "returned"
         /\ BalancedAttempts = {Len(hist)}
         /\ Cardinality(BalanceEntries) = 1
    /\ BalancedAttempts = {} => SignEntries = {}

C33_Witness ==
  /\ flow = "deploy"
  /\ fpc = "done"
  /\ Cardinality(SignEntries) = 1
  /\ NumSamples = 3
  /\ BalancedAttempts = {Len(hist)}
  /\ hist[1].v = "bad"

-----------------------------------------------------------------------------
\* the attempts that threw an error without the ineligible-input code
OtherErrors == {i \in 1..Len(tried) : tried[i].threw /\ tried[i].msg # IneligibleMsg}

\* C34: in the candidate loop of the dust script an error without 'Custom
\* error: 139', thrown by registerNightUtxosForDustGeneration, finalizeRecipe
\* or submitTransaction, is rethrown: that attempt is the last one, the
\* script ends with that error, and no hash is kept or printed.
C34_OtherErrorAborts ==
  flow = "dust" =>
    \A i \in OtherErrors :
      /\ i = Len(tried)
      /\ fpc = "failed"
      /\ perr = [stage |-> tried[i].step, msg |-> tried[i].msg]
      /\ txHash = ""
      /\ out = <<>>

\* the second of three coins failed at finalizeRecipe with another error
C34_Witness ==
  /\ flow = "dust"
  /\ Len(utxos) = 3
  /\ Len(tried) = 2
  /\ Rejected139(tried[1])
  /\ tried[2].step = "finalize"
  /\ OtherErrors = {2}
  /\ fpc = "failed"


-----------------------------------------------------------------------------
\* C39: the deploy flow composes no transaction while the balance is zero: a
\* balance that is still zero when the funds wait has ended fails the run with
\* 'Balance is 0. Run yarn fund first.' before any compose, balance, sign or
\* submit stage and before the deployment record is written, and the dust flow
\* without an unspent output fails before any candidate is submitted.
C39_NoFundsNoTransaction ==
  /\ (flow = "deploy" /\ balance = 0) =>
       /\ fpc \in {"funds", "failed"}
       /\ plog = <<>>
       /\ out = <<>>
       /\ wpc = "idle" /\ hist = <<>>
       /\ fpc = "failed" => perr = [stage |-> "funds", msg |-> ZeroBalanceMsg]
  /\ (flow = "deploy" /\ balance # 0) => perr.msg # ZeroBalanceMsg
  /\ (flow = "dust" /\ Len(utxos) = 0) =>
       /\ fpc \in {"utxos", "failed"}
       /\ tried = <<>>
       /\ txHash = ""
       /\ out = <<>>
       /\ fpc = "failed" => perr = [stage |-> "utxos", msg |-> NoUtxosMsg]

C39_Witness ==
  /\ flow = "deploy"
  /\ balance = 0
  /\ fpc = "failed"
  /\ perr.msg = ZeroBalanceMsg
  /\ plog = <<>>


-----------------------------------------------------------------------------
\* the indexer delivered a block timestamp
Delivered(answer) ==
  /\ ~answer.rejected /\ answer.ok /\ answer.parses
  /\ answer.errors = 0
  /\ answer.ts # <<>> /\ answer.ts[1] # 0

LastAttempt == CHOOSE i \in 1..Len(hist) :
  IsAttempt(hist[i]) /\ \A j \in (i + 1)..Len(hist) : ~IsAttempt(hist[j])

\* C37: computing the expiry never fails the deploy pipeline: a getTtl() call
\* never throws; when the chain-time query failed in any way its value is the
\* local time of the call plus the TTL, otherwise it is max(0, chain time
\* minus the safety margin) plus the TTL; and every balance attempt of the
\* retry loop passes an expiry computed at the time of that attempt.
C37_ExpiryNeverFails ==
  flow = "deploy" =>
    /\ ~ttl.threw
    /\ ttl.n > 0 =>
         ttl.value = IF Delivered(ttl.answer)
                       THEN Max(0, ttl.answer.ts[1] - CHAIN_SAFETY_MS) + TTL_MS
                       ELSE ttl.at + TTL_MS
    /\ (ttl.n = 0) <=> (plog = <<>>)
    /\ NumSamples > 0 =>
         /\ ttl.n = NumSamples + 1
         /\ ttl.at = hist[LastAttempt].t

C37_Witness ==
  /\ flow = "deploy"
  /\ NumSamples = 2
  /\ ttl.n = 3
  /\ ttl.at = hist[LastAttempt].t
  /\ ttl.at >= DEPLOY_POLL_MS
  /\ ~Delivered(ttl.answer)
  /\ ttl.value = ttl.at + TTL_MS
  /\ fpc = "submit"


-----------------------------------------------------------------------------
\* the process has ended: main of a script returned or its catch called
\* process.exit(1); the CLI left its try / finally
ProcessEnded == fpc \in {"done", "failed"} \/ session = "ended"

\* C38 as stated: on every termination path (normal exit, failed wait, failed
\* pipeline stage) each wallet that was started is stopped before the process
\* ends, and the CLI stops both role wallets whenever both were initialized.
C38_StartedWalletsStopped ==
  ProcessEnded => \A w \in WalletNames : wallets[w] # "started"

\* the scripts stop their wallet where main returns normally
ScriptStopsOnReturn ==
  (flow \in {"deploy", "dust"} /\ fpc = "done") => wallets["script"] = "stopped"

\* the finally of the CLI's main stops both role wallets on every way out
CliStopsBothWallets ==
  session = "ended" => (wallets["client"] = "stopped" /\ wallets["bartender"] = "stopped")

\* a script whose main threw ends with its wallet still started
ScriptFailedWalletRunning ==
  /\ flow \in {"deploy", "dust"}
  /\ fpc = "failed"
  /\ wallets["script"] = "started"


-----------------------------------------------------------------------------
\* a bech32m address of the 'undeployed' network: the prefix of its kind, the
\* network name, the separator and the data part
IsUndeployedAddress(arg) ==
  \/ arg = <<"mn_shield-addr", "_", "undeployed", "1", "data">>
  \/ arg = <<"mn_addr", "_", "undeployed", "1", "data">>

OutputTypes == [i \in 1..Len(fund.outputs) |-> fund.outputs[i].type]

\* the argument has been classified
ArgClassified == flow = "transfer" /\ fpc # "args"

\* the outputs exist once the sender wallet is set up
OutputsBuilt == flow = "transfer" /\ fpc \in StageNames \cup {"done"}

\* exit code 2 comes before any wallet and any stage, and the outputs follow
\* the kind of the argument
FundOutputsByKind ==
  /\ (flow = "transfer" /\ fund.exitCode = 2) =>
       (fpc = "exited" /\ wallets = NoWallets /\ plog = <<>> /\ fund.outputs = <<>>)
  /\ (flow = "transfer" /\ fpc = "args") => (wallets = NoWallets /\ plog = <<>>)
  /\ OutputsBuilt =>
       /\ validateMnemonic(fund.arg) =>
            /\ Len(fund.outputs) = 2
            /\ {OutputTypes[1], OutputTypes[2]} = {"shielded", "unshielded"}
       /\ ~validateMnemonic(fund.arg) =>
            /\ Len(fund.outputs) = 1
            /\ fund.outputs[1].receiverAddress = fund.arg
            /\ OutputTypes[1] = IF startsWith(fund.arg, EXPECTED_SHIELDED)
                                  THEN "shielded" ELSE "unshielded"

\* C32 as stated: the fund script classifies its argument first; an argument
\* that is neither a valid mnemonic nor an address of the 'undeployed' network
\* ends the run with exit code 2 before any wallet is initialized; a mnemonic
\* yields one shielded and one unshielded output, and a single address yields
\* exactly the one output of its kind.
C32_ArgumentClassifiedFirst ==
  /\ FundOutputsByKind
  /\ (ArgClassified /\ ~validateMnemonic(fund.arg) /\ ~IsUndeployedAddress(fund.arg)) =>
       (fund.exitCode = 2 /\ fpc = "exited" /\ wallets = NoWallets)

\* what the code checks of an address: the prefix of its kind with the
\* network name 'undeployed', and nothing of what follows it
HasUndeployedPrefix(arg) ==
  startsWith(arg, EXPECTED_SHIELDED) \/ startsWith(arg, EXPECTED_UNSHIELDED)

PrefixDecidesExit2 ==
  /\ FundOutputsByKind
  /\ ArgClassified =>
       ((fund.exitCode = 2) <=> (~validateMnemonic(fund.arg) /\ ~HasUndeployedPrefix(fund.arg)))

\* text that only starts like an address has set up the sender wallet
NotAnAddressFunded ==
  /\ flow = "transfer"
  /\ ~validateMnemonic(fund.arg) /\ ~IsUndeployedAddress(fund.arg)
  /\ wallets["sender"] = "started"
  /\ Len(fund.outputs) = 1

====
